---------------------------- MODULE Spec2Model ----------------------------
(* go-tcp-proxy: the connection-session engine (Proxy.Start, Proxy.pipe,   *)
(* Proxy.err), the yara rule dispatch (Proxy.RuleMatching), the rule-set    *)
(* cache (Proxy.LoadYaraConfig) and the hot reload (Proxy.watchYaraFile,    *)
(* Proxy.rebuildScanner).                                                   *)
(*                                                                          *)
(* src/unnamed/part_000 holds two generations of proxy.go that carry a      *)
(* scanner.  They are told apart by the variable variant:                   *)
(*   "watch"  part_000 lines 1-284   (rule tags, scannerLock, fsnotify)     *)
(*   "cache"  part_000 lines 517-769 (log_ prefix, scanners cache, bufPool) *)
(* Strings are sequences of character codes, chunks are sequences of bytes. *)
EXTENDS Integers, Sequences, FiniteSets, TLC

\* ---------------------------------------------------------------- bounds
MaxSessions == 3    \* Proxy objects the accept loop creates
MaxChunks   == 2    \* successful reads of one session
MaxEvents   == 1    \* file-system events while a watcher runs
MaxWrites   == 2    \* changes of the rule file while connections arrive
MaxMTime    == 2    \* modification times are 1..MaxMTime
MaxItems    == 2    \* items of a config file
MaxLen      == 4    \* bytes of an input of a single Replace

Sessions == 1 .. MaxSessions
Pumps    == {"local", "remote"}
MTimes   == 1 .. MaxMTime
Variants == {"watch", "cache"}

\* what one Read can return: the two bytes the rule strings are made of
Chunks == {<<1>>, <<2>>}

\* ------------------------------------------------------- strings (codes)
sLog    == <<108, 111, 103>>          \* "log"
sWarn   == <<119, 97, 114, 110>>      \* "warn"
sDrop   == <<100, 114, 111, 112>>     \* "drop"
sLogPre == <<108, 111, 103, 95>>      \* "log_"
sLOG    == <<76, 79, 71>>             \* "LOG"
sWarnC  == <<87, 97, 114, 110>>       \* "Warn"
sDROP   == <<68, 82, 79, 80>>         \* "DROP"
sIdA    == <<97>>                     \* "a"
sIdX    == <<120>>                    \* "x"
sIdLogB == <<108, 111, 103, 95, 98>>  \* "log_b"
sIdLogC == <<108, 111, 103, 95, 99>>  \* "log_c"
sIdN    == <<110>>                    \* "n"
sNote   == <<110, 111, 116, 101>>     \* "note"
sDot    == <<46>>                     \* "."
sParen  == <<40>>                     \* "("
sNewline == <<10>>                    \* "\n"
sTilde  == <<126>>                    \* "~"
\* "{ 41 41 41 41 }"
sSub41  == <<123, 32, 52, 49, 32, 52, 49, 32, 52, 49, 32, 52, 49, 32, 125>>

\* strings.ToLower on ASCII text
ToLower(str) ==
    [i \in DOMAIN str |-> IF str[i] \in 65 .. 90 THEN str[i] + 32 ELSE str[i]]

\* strings.HasPrefix
HasPrefix(str, pre) ==
    /\ Len(str) >= Len(pre)
    /\ SubSeq(str, 1, Len(pre)) = pre

\* ------------------------------------------------------------ rule sets
\* A yara rule as the callback sees it: Identifier(), Tags(), the one
\* string of its condition and the value of its `sub` metadata item (<<>>:
\* the rule has none).
RuleLog  == [id |-> sIdA, tags |-> <<sLOG, sWarnC>>, pattern |-> <<1>>,
             sub |-> sSub41]
RuleLogB == [id |-> sIdLogB, tags |-> <<sLog, sDrop>>, pattern |-> <<2>>,
             sub |-> <<>>]
RuleDrop == [id |-> sIdX, tags |-> <<sWarn, sDROP>>, pattern |-> <<2>>,
             sub |-> <<>>]
RulePlain == [id |-> sIdN, tags |-> <<sNote>>, pattern |-> <<1>>,
              sub |-> <<>>]
RuleQuiet == [id |-> sIdLogC, tags |-> <<>>, pattern |-> <<2>>,
              sub |-> <<>>]

\* A: byte 1 matches a rule a tagged `LOG Warn`, byte 2 one tagged
\*    `warn DROP`
\* B: byte 2 matches a rule log_b tagged `log drop` and then the rule
\*    tagged `warn DROP`, byte 1 matches nothing
\* C: byte 1 matches a rule n tagged `note`, byte 2 a rule log_c without
\*    tags
RuleSetA == <<RuleLog, RuleDrop>>
RuleSetB == <<RuleLogB, RuleDrop>>
RuleSetC == <<RulePlain, RuleQuiet>>
RuleSets == {RuleSetA, RuleSetB, RuleSetC}

\* the rule string occurs in the scanned bytes
Contains(b, pat) ==
    \E i \in 1 .. Len(b) - Len(pat) + 1 : SubSeq(b, i, i + Len(pat) - 1) = pat

\* index of the first rule at or after i whose condition holds on b,
\* Len(rs) + 1 when there is none
RECURSIVE NextMatch(_, _, _)
NextMatch(rs, b, i) ==
    IF i > Len(rs) THEN Len(rs) + 1
    ELSE IF Contains(b, rs[i].pattern) THEN i
    ELSE NextMatch(rs, b, i + 1)

\* ------------------------------------------------------ getSubstitution
\* strings.HasSuffix
HasSuffix(str, suf) ==
    /\ Len(str) >= Len(suf)
    /\ SubSeq(str, Len(str) - Len(suf) + 1, Len(str)) = suf

\* strings.TrimLeft / strings.TrimRight with a cutset
RECURSIVE TrimLeft(_, _)
TrimLeft(str, cut) ==
    IF str # <<>> /\ Head(str) \in cut THEN TrimLeft(Tail(str), cut) ELSE str

RECURSIVE TrimRight(_, _)
TrimRight(str, cut) ==
    IF str # <<>> /\ str[Len(str)] \in cut
    THEN TrimRight(SubSeq(str, 1, Len(str) - 1), cut) ELSE str

\* the value of a hexadecimal digit, 16 for any other character
HexDigit(c) ==
    IF c \in 48 .. 57 THEN c - 48
    ELSE IF c \in 97 .. 102 THEN c - 87
    ELSE IF c \in 65 .. 70 THEN c - 55
    ELSE 16

\* hex.DecodeString: an odd length or a character that is no digit is an
\* error
HexDecode(str) ==
    IF Len(str) % 2 = 1 \/ \E i \in DOMAIN str : HexDigit(str[i]) = 16
    THEN [bytes |-> <<>>, ok |-> FALSE]
    ELSE [bytes |-> [i \in 1 .. Len(str) \div 2 |->
                       16 * HexDigit(str[2 * i - 1]) + HexDigit(str[2 * i])],
          ok |-> TRUE]

\* getSubstitution for the value mvs of the `sub` item: a value between
\* "{ " and " }" is stripped of braces and spaces and decoded; any other
\* value gives nil, false
getSubstitution(mvs) ==
    IF HasPrefix(mvs, <<123, 32>>) /\ HasSuffix(mvs, <<32, 125>>)
    THEN HexDecode(SelectSeq(TrimRight(TrimLeft(mvs, {32, 123}), {125, 32}),
                             LAMBDA c : c # 32))
    ELSE [bytes |-> <<>>, ok |-> FALSE]

\* ------------------------------------------------------------ scanners
\* *yara.Scanner: nil, or a scanner object (gen names the object) over a
\* rule set, with the Proxy registered by SetCallback (cb = 0: none).
NoScanner == [nil |-> TRUE, rs |-> <<>>, gen |-> 0, cb |-> 0]
MkScanner(rs, gen, cb) == [nil |-> FALSE, rs |-> rs, gen |-> gen, cb |-> cb]


\* ------------------------------------------------------------ replacers
\* bytes.ReplaceAll for a non-empty find sequence:
\* every non-overlapping occurrence, scanning left to right
\* a replace that drops a tail shorter than the find sequence
RECURSIVE ReplaceAllDropTail(_, _, _)
ReplaceAllDropTail(src, old, new) ==
    IF Len(src) < Len(old) THEN <<>>
    ELSE IF SubSeq(src, 1, Len(old)) = old
         THEN new \o ReplaceAllDropTail(SubSeq(src, Len(old) + 1, Len(src)),
                                        old, new)
         ELSE <<src[1]>> \o ReplaceAllDropTail(Tail(src), old, new)

RECURSIVE ReplaceAll(_, _, _)
ReplaceAll(src, old, new) ==
    IF Len(src) < Len(old) THEN src
    ELSE IF SubSeq(src, 1, Len(old)) = old
         THEN new \o ReplaceAll(SubSeq(src, Len(old) + 1, Len(src)), old, new)
         ELSE <<src[1]>> \o ReplaceAll(Tail(src), old, new)

\* whether the compiled pattern pat matches at the start of src: a `.`
\* matches any one character but "\n" (the s flag is not set), every other
\* character itself; the bytes are ASCII, one to a character
MatchesAt(src, pat) ==
    /\ Len(src) >= Len(pat)
    /\ \A i \in DOMAIN pat :
          IF <<pat[i]>> = sDot THEN <<src[i]>> # sNewline
          ELSE pat[i] = src[i]

\* regexp.ReplaceAll for such a pattern and a replacement without `$`:
\* the leftmost matches, not overlapping
RECURSIVE RegexReplaceAll(_, _, _)
RegexReplaceAll(src, pat, new) ==
    IF Len(src) < Len(pat) THEN src
    ELSE IF MatchesAt(src, pat)
         THEN new \o RegexReplaceAll(SubSeq(src, Len(pat) + 1, Len(src)),
                                     pat, new)
         ELSE <<src[1]>> \o RegexReplaceAll(Tail(src), pat, new)

\* strings.Index: the place of the first occurrence of sep in str, 0 when
\* there is none
Index(str, sep) ==
    IF Contains(str, sep)
    THEN CHOOSE i \in 1 .. Len(str) - Len(sep) + 1 :
            /\ SubSeq(str, i, i + Len(sep) - 1) = sep
            /\ \A j \in 1 .. i - 1 : SubSeq(str, j, j + Len(sep) - 1) # sep
    ELSE 0

\* strings.Count for a non-empty sep: the non-overlapping occurrences
RECURSIVE StringsCount(_, _)
StringsCount(str, sep) ==
    IF Index(str, sep) = 0 THEN 0
    ELSE 1 + StringsCount(SubSeq(str, Index(str, sep) + Len(sep), Len(str)),
                          sep)

\* the loop of strings.Replace for a non-empty old: n times, the text up to
\* the next Index, then new; the rest after the last one
RECURSIVE StringsReplace(_, _, _, _)
StringsReplace(str, old, new, n) ==
    IF n = 0 THEN str
    ELSE LET j == Index(str, old)
         IN  SubSeq(str, 1, j - 1) \o new
             \o StringsReplace(SubSeq(str, j + Len(old), Len(str)),
                               old, new, n - 1)

\* a replace of the first occurrence only
StringsReplaceFirst(str, old, new) ==
    IF Index(str, old) = 0 THEN str ELSE StringsReplace(str, old, new, 1)

\* strings.ReplaceAll(s, old, new) = strings.Replace(s, old, new, -1)
StringsReplaceAll(str, old, new) ==
    StringsReplace(str, old, new, StringsCount(str, old))

\* a Replace whose literal kinds lose the bytes after the last position an
\* occurrence could start at
ReplaceDropTail(r, b) ==
    IF r.kind = "regex" THEN RegexReplaceAll(b, r.in, r.out)
    ELSE ReplaceAllDropTail(b, r.in, r.out)

\* BytesReplacer.Replace / StringReplacer.Replace / RegexReplacer.Replace;
\* string(in) and []byte(sNew) copy the bytes as they are
Replace(r, b) ==
    IF r.kind = "regex" THEN RegexReplaceAll(b, r.in, r.out)
    ELSE IF r.kind = "string" THEN StringsReplaceAll(b, r.in, r.out)
    ELSE ReplaceAll(b, r.in, r.out)

\* a replace loop that ranges over the Replacers from the last to the first
RECURSIVE ApplyChainBackward(_, _)
ApplyChainBackward(chain, b) ==
    IF chain = <<>> THEN b
    ELSE Replace(Head(chain), ApplyChainBackward(Tail(chain), b))

\* the replace loop of pipe: each replacer consumes the previous output
RECURSIVE ApplyChain(_, _)
ApplyChain(chain, b) ==
    IF chain = <<>> THEN b
    ELSE ApplyChain(Tail(chain), Replace(Head(chain), b))

\* ------------------------------------------------------------ rule file
\* The yara rule file: its modification time and what it holds (rule
\* source text, a compiled rule set, or neither).
FileStates ==
    [mtime : MTimes, kind : {"source", "compiled"}, rs : RuleSets]
    \cup [mtime : MTimes, kind : {"garbage"}, rs : {<<>>}]

VARIABLES
    variant,      \* which generation of proxy.go is built
    proxy,        \* proxy[s]: the fields of Proxy s
    start,        \* start[s]: position of the goroutine running Start
    pump,         \* pump[s][g]: position and locals of pipe, g \in Pumps
    scan,         \* scan[s]: locals of ScanMem / RuleMatching (local Pump)
    watch,        \* watch[s]: position of watchYaraFile
    events,       \* events[s]: Watcher.Events of Proxy s
    evCount,      \* file-system events so far
    file,         \* the rule file on disk
    scanners,     \* the package-level cache: mtime -> compiled scanner
    compiles,     \* the compiler as seen from outside: invocations (n),
                  \* successful ones (okN), time and rules of the last
                  \* successful one, times of the successful lookups
    nextGen,      \* scanner objects created so far + 1
    nextSession,  \* next Proxy the accept loop creates
    mainLog,      \* what main's logger has printed
    bufPool,      \* free buffers of the package-level sync.Pool
    nextBuf,      \* buffers allocated by bufPool.New so far + 1
    obs,          \* obs[s]: what an observer of session s has seen
    conf,         \* a call of LoadConfig: its input, position and result
    flow          \* one pipe taken alone: its chunks, output and matches

\* the variables of the proxy with its sessions
pvars == <<variant, proxy, start, pump, scan, watch, events, evCount, file,
           scanners, compiles, nextGen, nextSession, mainLog, bufPool,
           nextBuf, obs>>

vars == <<pvars, conf, flow>>

\* ------------------------------------------------------------------ New
\* proxy.New: the accepted local connection, no remote one, erred false,
\* an unbuffered errsig, a logger that has printed nothing.
New ==
    [sentBytes |-> 0, receivedBytes |-> 0,
     lconn |-> "open", rconn |-> "nil",
     erred |-> FALSE,
     Scanner |-> NoScanner, Watcher |-> FALSE, scannerLock |-> "free",
     Matcher |-> FALSE, Replacers |-> <<>>,
     log |-> {}]

\* a Proxy the accept loop has not created yet
Unborn == [New EXCEPT !.lconn = "nil"]

PumpInit  == [pc |-> "idle", raw |-> <<>>, seen |-> <<>>, b |-> <<>>,
              buff |-> 0, ret |-> "idle", cause |-> "none", rule |-> <<>>,
              reads |-> 0, on |-> 0]
ScanInit  == [test |-> 0, ref |-> NoScanner, ri |-> 1, ti |-> 1]
ObsInit   == [signals |-> 0, lclose |-> 0, rclose |-> 0, passes |-> 0,
              ignored |-> 0, first |-> "none",
              dialFailed |-> FALSE, dropFired |-> FALSE,
              wrote |-> [g \in Pumps |-> 0]]

\* ------------------------------------------------------- LoadYaraConfig
\* Proxy.LoadYaraConfig as a function of the rule file f, the cache and
\* the number of the next scanner object, for the Proxy s: the Scanner and
\* Watcher the Proxy ends with, the cache, the compiler invocations and
\* whether an error is returned.
\* LoadYaraConfig without the scanners.Range that deletes every entry
EvictNone(cache) == cache

\* scanners.Range(...Delete) and scanners.Store of LoadYaraConfig
Evict(cache) == [t \in {} |-> 0]
Store(cache, key, value) == [t \in DOMAIN cache \cup {key} |->
                               IF t = key THEN value ELSE cache[t]]

\* a lookup that never hits, and one that takes any entry for a hit
CacheHitNever(f, cache) == FALSE
CacheHitAny(f, cache) == DOMAIN cache # {}

\* scanners.Load
CacheHit(f, cache) == f.mtime \in DOMAIN cache

\* the value scanners.Load returns on a hit
Cached(f, cache) ==
    IF f.mtime \in DOMAIN cache THEN cache[f.mtime]
    ELSE cache[CHOOSE t \in DOMAIN cache : TRUE]

LoadCache(f, cache, gen, s) ==
    IF CacheHit(f, cache)
    THEN [Scanner |-> MkScanner(Cached(f, cache).rs, Cached(f, cache).gen, s),
          Watcher |-> FALSE, scanners |-> cache, compiled |-> 0,
          gen |-> gen, err |-> FALSE]
    ELSE IF f.kind = "source"
    THEN [Scanner |-> MkScanner(f.rs, gen, s), Watcher |-> FALSE,
          scanners |-> Store(Evict(cache), f.mtime,
                             [rs |-> f.rs, gen |-> gen]),
          compiled |-> 1, gen |-> gen + 1, err |-> FALSE]
    ELSE [Scanner |-> NoScanner, Watcher |-> FALSE, scanners |-> cache,
          compiled |-> 1, gen |-> gen, err |-> TRUE]

LoadWatch(f, cache, gen, s) ==
    IF f.kind = "source"
    THEN [Scanner |-> MkScanner(f.rs, gen, s), Watcher |-> TRUE,
          scanners |-> cache, compiled |-> 1, gen |-> gen + 1,
          err |-> FALSE]
    ELSE [Scanner |-> NoScanner, Watcher |-> FALSE, scanners |-> cache,
          compiled |-> 1, gen |-> gen, err |-> TRUE]

LoadYaraConfig(var, f, cache, gen, s) ==
    IF var = "cache" THEN LoadCache(f, cache, gen, s)
    ELSE LoadWatch(f, cache, gen, s)

\* the empty sync.Map
EmptyCache == [t \in {} |-> 0]

\* the record of compiler invocations after a LoadYaraConfig with result r
\* on the rule file f
NoCompiles == [n |-> 0, okN |-> 0, okTime |-> 0, okRs |-> <<>>, seen |-> {}]
Compiled(c, r, f) ==
    LET ok == r.compiled = 1 /\ ~r.err
    IN  [n      |-> c.n + r.compiled,
         okN    |-> IF ok THEN c.okN + 1 ELSE c.okN,
         okTime |-> IF ok THEN f.mtime ELSE c.okTime,
         okRs   |-> IF ok THEN f.rs ELSE c.okRs,
         seen   |-> IF r.err THEN c.seen ELSE c.seen \cup {f.mtime}]


\* ------------------------------------------------------ the config file
\* A value of the YAML config as yaml.v3 decodes it into interface{}: a
\* missing key (nil), a string, an integer, or a list of elements.
Nil     == [t |-> "nil", v |-> <<>>, l |-> <<>>]
Str(v)  == [t |-> "string", v |-> v, l |-> <<>>]
Num(n)  == [t |-> "int", v |-> <<n>>, l |-> <<>>]
List(l) == [t |-> "list", v |-> <<>>, l |-> l]

\* the elements of a list: an int, a float64, a string
EInt(n) == [t |-> "int", n |-> n]
EFloat  == [t |-> "float64", n |-> 0]
EStr    == [t |-> "string", n |-> 0]

\* the names of the replacer types
SubstrNames == {"substring", "str", "string", "ss", "substr"}
RegexNames  == {"regex", "regexp", "re", "reg"}

\* a range test without the upper bound
OutOfRangeNeg(n) == n < 0

\* parseByteSlice: `iVal < 0 || iVal > 255`
OutOfRange(n) == n < 0 \/ n > 255

\* parseByteSlice from element i on, acc being bSlice: the first element
\* that is no int or is out of range ends the loop with an error, every
\* other element is appended as byte(iVal)
RECURSIVE ParseFrom(_, _, _)
ParseFrom(sl, i, acc) ==
    IF i > Len(sl) THEN [err |-> "", bytes |-> acc, at |-> 0]
    ELSE IF sl[i].t # "int"
         THEN [err |-> "type", bytes |-> <<>>, at |-> i]
    ELSE IF OutOfRange(sl[i].n)
         THEN [err |-> "range", bytes |-> <<>>, at |-> i]
    ELSE ParseFrom(sl, i + 1, Append(acc, sl[i].n % 256))

parseByteSlice(sl) == ParseFrom(sl, 1, <<>>)

\* regexp.Compile for the patterns of the model: letters, `.` (any one
\* byte) and `(`, which alone is a syntax error
RegexCompiles(str) == \A i \in DOMAIN str : <<str[i]>> # sParen

\* a find test that only looks at the type
NoFindTypeOnly(v) == v.t # "string"

\* `findStr, ok := r.Find.(string); !ok || findStr == ""`
NoFind(v) == v.t # "string" \/ v.v = <<>>

\* what Parse returns: a Replacer and a nil error, or nil and an error
NoReplacer == [kind |-> "none", in |-> <<>>, out |-> <<>>]
ParseErr(msg) == [err |-> msg, rep |-> NoReplacer]
ParseOk(kind, in, out) ==
    [err |-> "", rep |-> [kind |-> kind, in |-> in, out |-> out]]

\* ReplacerConfig.Parse
Parse(r) ==
    IF r.type \in SubstrNames
    THEN IF NoFind(r.find) THEN ParseErr("no substring provided")
         ELSE IF r.replace.t # "string"
              THEN ParseErr("replacement not of type string")
         ELSE ParseOk("string", r.find.v, r.replace.v)
    ELSE IF r.type \in RegexNames
    THEN IF NoFind(r.find) THEN ParseErr("no regex pattern provided")
         ELSE IF ~RegexCompiles(r.find.v)
              THEN ParseErr("failed to compile regex")
         ELSE IF r.replace.t # "string"
              THEN ParseErr("replacement not of type string")
         ELSE ParseOk("regex", r.find.v, r.replace.v)
    ELSE IF r.type = "bytes"
    THEN IF r.find.t # "list" THEN ParseErr("find field not a slice")
         ELSE IF r.replace.t # "list"
              THEN ParseErr("find field is not a slice")
         ELSE LET f == parseByteSlice(r.find.l)
                  o == parseByteSlice(r.replace.l)
              IN  IF f.err # ""
                  THEN ParseErr("could not parse search slice as bytes")
                  ELSE IF o.err # ""
                  THEN ParseErr("could not parse replace slice as bytes")
                  ELSE IF Len(f.bytes) = 0
                  THEN ParseErr("no search bytes provided")
                  ELSE ParseOk("bytes", f.bytes, o.bytes)
    ELSE ParseErr("unsupported replacer type")

\* The items the config files of the model are made of.
Item(type, find, replace) ==
    [type |-> type, find |-> find, replace |-> replace]

ConfigItems ==
    { Item("substring", Str(<<1>>), Str(<<2>>)),
      Item("str", Nil, Str(<<2>>)),
      Item("substring", Str(<<>>), Str(<<2>>)),
      Item("ss", Str(<<1, 2>>), Nil),
      Item("string", Num(1), Str(<<2>>)),
      Item("regex", Str(<<1>> \o sDot), Str(<<2>>)),
      Item("re", Nil, Str(<<2>>)),
      Item("regexp", Str(<<>>), Str(<<2>>)),
      Item("reg", Str(sParen), Str(<<2>>)),
      Item("regex", Str(<<1>>), Num(1337)),
      Item("bytes", List(<<EInt(1), EInt(2), EInt(0), EInt(255)>>),
                    List(<<EInt(2)>>)),
      Item("bytes", List(<<EInt(2)>>), List(<<>>)),
      Item("bytes", List(<<>>), List(<<EInt(0)>>)),
      Item("bytes", Nil, List(<<EInt(0)>>)),
      Item("bytes", List(<<EInt(1)>>), Nil),
      Item("bytes", List(<<EInt(1), EInt(256)>>), List(<<EInt(2)>>)),
      Item("bytes", List(<<EInt(1)>>), List(<<EInt(0 - 1)>>)),
      Item("bytes", List(<<EInt(1), EFloat>>), List(<<EInt(2)>>)),
      Item("bytes", List(<<EStr>>), List(<<EInt(2)>>)),
      Item("xor", Str(<<1>>), Str(<<2>>)) }

\* the config files: lists of at most MaxItems items
ConfigLists ==
    UNION {[1 .. n -> ConfigItems] : n \in 0 .. MaxItems}

\* Proxy.LoadConfig seen as a function of the items of the file: the
\* Replacers of the items Parse accepts, appended in the order of the list
RECURSIVE FileReplacers(_)
FileReplacers(items) ==
    IF items = <<>> THEN <<>>
    ELSE LET r == Parse(Head(items))
         IN  (IF r.err = "" THEN <<r.rep>> ELSE <<>>)
                 \o FileReplacers(Tail(items))

\* createReplacer(replace): a text that strings.Split does not cut into
\* exactly two parts at "~" gives no Replacer (the empty text is one of
\* them), and so does a first part regexp.Compile rejects; otherwise the
\* RegexReplacer of the first part with the second as Replacement
createReplacer(replace) ==
    LET at == {i \in DOMAIN replace : <<replace[i]>> = sTilde}
    IN  IF Cardinality(at) # 1 THEN <<>>
        ELSE LET k   == CHOOSE i \in at : TRUE
                 pat == SubSeq(replace, 1, k - 1)
             IN  IF ~RegexCompiles(pat) THEN <<>>
                 ELSE <<[kind |-> "regex", in |-> pat,
                         out |-> SubSeq(replace, k + 1, Len(replace))]>>

\* The command lines main is run with: whether -match is given, the items
\* of the -config file and the text of -replace. The second has one item,
\* the third adds a -replace to it, the fourth has a file of two items.
CommandLines ==
    { [match |-> FALSE, config |-> <<>>, replace |-> <<>>],
      [match |-> TRUE,
       config |-> <<Item("bytes", List(<<EInt(1)>>),
                                  List(<<EInt(2), EInt(2)>>))>>,
       replace |-> <<>>],
      [match |-> TRUE,
       config |-> <<Item("bytes", List(<<EInt(1)>>),
                                  List(<<EInt(2), EInt(2)>>))>>,
       replace |-> <<2>> \o sTilde \o <<1>>],
      [match |-> TRUE,
       config |-> <<Item("substring", Str(<<2>>), Str(<<1>>)),
                    Item("bytes", List(<<EInt(1)>>),
                                  List(<<EInt(2), EInt(2)>>))>>,
       replace |-> <<>>] }

\* the loop body of main for the Proxy of a new connection: p.Matcher =
\* matcher, p.LoadConfig appends the Replacers of the file, and the
\* Replacer of -replace, when there is one, is appended after them
MainConfig(cl) ==
    [Matcher |-> cl.match,
     Replacers |-> FileReplacers(cl.config) \o createReplacer(cl.replace)]

\* the configurations main gives a Proxy of the "cache" generation
Configs == {MainConfig(cl) : cl \in CommandLines}

\* the Replacer chains a Proxy is configured with
Chains == {c.Replacers : c \in Configs}

\* no call of LoadConfig
ConfIdle ==
    [pc |-> "idle", yaml |-> TRUE, items |-> <<>>, i |-> 1,
     Replacers |-> <<>>, before |-> <<>>, errs |-> <<>>, log |-> <<>>,
     ret |-> "none"]

\* p.LoadConfig(config) is called: config holds the items, or is not YAML
\* for a list at all, and p.Replacers is `chain`
ConfCall(yaml, items, chain) ==
    [ConfIdle EXCEPT !.pc = "call", !.yaml = yaml, !.items = items,
                     !.Replacers = chain, !.before = chain]

\* ------------------------------------------------- one pipe taken alone
\* The pipe of the local connection without its neighbours: the chunks its
\* Reads will return, the Replacers and the rules of the Proxy.
FlowReplacers ==
    { [kind |-> "bytes", in |-> <<1>>, out |-> <<2, 2>>],
      [kind |-> "string", in |-> <<1, 2>>, out |-> <<2>>],
      [kind |-> "regex", in |-> <<2>> \o sDot, out |-> <<1>>] }

FlowChains ==
    {<<>>} \cup {<<r>> : r \in FlowReplacers}
           \cup {<<r, q>> : r \in FlowReplacers, q \in FlowReplacers}

FlowChunks == {<<1>>, <<2>>, <<1, 1>>, <<1, 2>>, <<2, 1>>, <<1, 2, 1>>,
               <<2>> \o sNewline}

FlowStreams == UNION {[1 .. n -> FlowChunks] : n \in 0 .. MaxChunks}

\* a rule whose string is two bytes long
RuleSplit == [id |-> sIdX, tags |-> <<sDrop>>, pattern |-> <<1, 2>>,
              sub |-> <<>>]
FlowRuleSets == {<<>>, <<RuleSplit>>, <<RuleSplit, RuleDrop>>}

\* the rules ScanMem(b) reports
Matching(rs, b) == {i \in DOMAIN rs : Contains(b, rs[i].pattern)}

\* the rules RuleMatching is called for: a log_ rule ends the scan
Reported(rs, b) ==
    {i \in Matching(rs, b) :
        \A j \in Matching(rs, b) : j < i => ~HasPrefix(rs[j].id, sLogPre)}

\* RuleMatching has called p.err: a reported rule is not a log_ rule
Erring(rs, b) ==
    \E i \in Reported(rs, b) : ~HasPrefix(rs[i].id, sLogPre)

FlowIdle ==
    [pc |-> "idle", chain |-> <<>>, rs |-> <<>>, todo |-> <<>>,
     raw |-> <<>>, out |-> <<>>, hits |-> <<>>, erred |-> FALSE]

FlowStart(chain, rs, chunks) ==
    [FlowIdle EXCEPT !.pc = "read", !.chain = chain, !.rs = rs,
                     !.todo = chunks]

\* a pipe that still has the bytes of the chunk before in its buffer
WindowCarry(prev, c) == prev \o c

\* `b := buff[:n]`: the bytes of this Read and nothing else
Window(prev, c) == c

\* ----------------------------------------------------------------- Init
\* One accepted connection: main has created Proxy 1, loaded the rule file
\* into it and started `go p.Start()`; no further connection arrives.
InitSession ==
    /\ variant \in Variants
    /\ file \in {f \in FileStates : f.mtime = 1 /\ f.kind # "compiled"}
    /\ \E cfg \in Configs :
          LET r == LoadYaraConfig(variant, file, EmptyCache, 1, 1)
              c == IF variant = "cache" THEN cfg
                   ELSE [Matcher |-> FALSE, Replacers |-> <<>>]
          IN  /\ proxy = [s \in Sessions |->
                    IF s = 1
                    THEN [New EXCEPT !.Scanner = r.Scanner,
                                     !.Watcher = r.Watcher,
                                     !.Matcher = c.Matcher,
                                     !.Replacers = c.Replacers]
                    ELSE Unborn]
              /\ scanners = r.scanners
              /\ compiles = Compiled(NoCompiles, r, file)
              /\ nextGen = r.gen
              /\ mainLog = IF r.err THEN {[lvl |-> "warn", msg |-> "load",
                                           id |-> 1]}
                           ELSE {}
    /\ start = [s \in Sessions |-> IF s = 1 THEN "dial" ELSE "unborn"]
    /\ nextSession = MaxSessions + 1

\* The listener is up and no connection has been accepted yet.
InitAccept ==
    /\ variant \in Variants
    /\ file \in FileStates
    /\ proxy = [s \in Sessions |-> Unborn]
    /\ scanners = EmptyCache
    /\ compiles = NoCompiles
    /\ nextGen = 1
    /\ mainLog = {}
    /\ start = [s \in Sessions |-> "unborn"]
    /\ nextSession = 1

\* no goroutine has run
InitIdle ==
    /\ pump = [s \in Sessions |-> [g \in Pumps |-> PumpInit]]
    /\ scan = [s \in Sessions |-> ScanInit]
    /\ watch = [s \in Sessions |-> "idle"]
    /\ events = [s \in Sessions |-> <<>>]
    /\ evCount = 0
    /\ bufPool = {}
    /\ nextBuf = 1
    /\ obs = [s \in Sessions |-> ObsInit]

Init ==
    /\ InitSession
    /\ InitIdle
    /\ conf = ConfIdle
    /\ flow = FlowIdle

\* the process before any connection, for a call taken alone
InitAlone ==
    /\ InitAccept
    /\ variant = "cache"
    /\ file = [mtime |-> 1, kind |-> "garbage", rs |-> <<>>]
    /\ InitIdle

\* LoadConfig is called with a config file for a Proxy that has a chain
InitConfig ==
    /\ InitAlone
    /\ conf \in {ConfCall(TRUE, items, chain) :
                    items \in ConfigLists, chain \in Chains}
               \cup {ConfCall(FALSE, <<>>, chain) : chain \in Chains}
    /\ flow = FlowIdle

\* pipe is started for a Proxy with a chain and rules
InitChunks ==
    /\ InitAlone
    /\ conf = ConfIdle
    /\ flow \in {FlowStart(chain, rs, chunks) :
                    chain \in FlowChains, rs \in FlowRuleSets,
                    chunks \in FlowStreams}

\* the texts of TestReplaceByte and of the documented example
s1337      == <<49, 51, 51, 55>>                          \* "1337"
sBeef      == <<98, 101, 101, 102>>                       \* "beef"
sIAm       == <<73, 32, 97, 109, 32>>                     \* "I am "
sFoo       == <<102, 111, 111>>                           \* "foo"
sBar       == <<98, 97, 114>>                             \* "bar"
sIHave     == <<73, 32, 104, 97, 118, 101, 32>>           \* "I have "
sAnd       == <<32, 97, 110, 100, 32>>                    \* " and "

\* find and replace sequences and inputs of a single Replace
ReplaceFinds == {<<1>>, <<1, 1>>, <<1, 2>>, <<2, 1, 2>>}
ReplaceNews  == {<<>>, <<2>>, <<1, 1>>, <<1, 2, 1>>}
ReplaceInputs == UNION {[1 .. n -> {1, 2}] : n \in 0 .. MaxLen}
LiteralKinds == {"bytes", "string"}

ReplaceCases ==
    {<<[kind |-> k, in |-> f, out |-> n], i>> :
        k \in LiteralKinds, f \in ReplaceFinds, n \in ReplaceNews,
        i \in ReplaceInputs}
    \cup {<<[kind |-> k, in |-> s1337, out |-> sBeef], sIAm \o s1337>> :
            k \in LiteralKinds}
    \cup {<<[kind |-> k, in |-> sFoo, out |-> sBar],
            sIHave \o sFoo \o sAnd \o sFoo>> : k \in LiteralKinds}

\* pipe is started for a Proxy with one Substring or ByteSequence replacer
\* and reads one chunk
InitReplace ==
    /\ InitAlone
    /\ conf = ConfIdle
    /\ flow \in {FlowStart(<<c[1]>>, <<>>, <<c[2]>>) : c \in ReplaceCases}

\* --------------------------------------------------------- accept loop
\* main's loop body: New, LoadYaraConfig, a warning when it fails, then
\* `go p.Start()`: the new goroutine is at the dial.
Accept(s) ==
    /\ s = nextSession
    /\ s <= MaxSessions
    /\ LET r == LoadYaraConfig(variant, file, scanners, nextGen, s)
       IN  /\ proxy' = [proxy EXCEPT ![s] =
                          [New EXCEPT !.Scanner = r.Scanner,
                                      !.Watcher = r.Watcher]]
           /\ scanners' = r.scanners
           /\ compiles' = Compiled(compiles, r, file)
           /\ nextGen' = r.gen
           /\ mainLog' = IF r.err
                         THEN mainLog \cup {[lvl |-> "warn", msg |-> "load",
                                             id |-> s]}
                         ELSE mainLog
    /\ start' = [start EXCEPT ![s] = "dial"]
    /\ nextSession' = s + 1
    /\ UNCHANGED <<conf, flow, variant, pump, scan, watch, events, evCount, file,
                   bufPool, nextBuf, obs>>


\* listener.AcceptTCP() returns an error: the warning of main's logger,
\* `continue`
AcceptFail ==
    /\ nextSession <= MaxSessions
    /\ mainLog' = mainLog \cup {[lvl |-> "warn", msg |-> "accept", id |-> 0]}
    /\ UNCHANGED <<conf, flow, variant, proxy, start, pump, scan, watch,
                   events, evCount, file, scanners, compiles, nextGen,
                   nextSession, bufPool, nextBuf, obs>>

\* ---------------------------------------------------------------- Start
Entry(lvl, msg, id) == [lvl |-> lvl, msg |-> msg, id |-> id]

\* Start, dial error without the `return`: the warning, then the Pumps
DialFailNoReturn(s) ==
    /\ start[s] = "dial"
    /\ proxy' = [proxy EXCEPT
                   ![s].log = @ \cup {Entry("warn", "dial", <<>>)}]
    /\ pump' = [pump EXCEPT ![s] =
                  [g \in Pumps |-> [PumpInit EXCEPT !.pc = "read"]]]
    /\ start' = [start EXCEPT ![s] = "wait"]
    /\ obs' = [obs EXCEPT ![s].dialFailed = TRUE]
    /\ UNCHANGED <<conf, flow, variant, scan, watch, events, evCount, file, scanners,
                   compiles, nextGen, nextSession, mainLog, bufPool,
                   nextBuf>>

\* Start, dial error: the warning, `return`, the deferred lconn.Close()
DialFail(s) ==
    /\ start[s] = "dial"
    /\ proxy' = [proxy EXCEPT
                   ![s].log = @ \cup {Entry("warn", "dial", <<>>)},
                   ![s].lconn = "closed"]
    /\ start' = [start EXCEPT ![s] = "closed"]
    /\ obs' = [obs EXCEPT ![s].dialFailed = TRUE, ![s].lclose = @ + 1]
    /\ UNCHANGED <<conf, flow, variant, pump, scan, watch, events, evCount, file,
                   scanners, compiles, nextGen, nextSession, mainLog,
                   bufPool, nextBuf>>

\* pipe has no shared effect before its loop in the "watch" generation
FirstPc == IF variant = "cache" THEN "begin" ELSE "read"
LoopPc  == IF variant = "cache" THEN "top" ELSE "read"
ExitPc  == IF variant = "cache" THEN "exit" ELSE "done"

\* Start, dial success: the watcher goroutine when a Scanner and a Watcher
\* are set, the two pipe goroutines, then the wait on errsig
DialOk(s) ==
    /\ start[s] = "dial"
    /\ proxy' = [proxy EXCEPT
                   ![s].rconn = "open",
                   ![s].log = @ \cup {Entry("info", "opened", <<>>)}]
    /\ watch' = [watch EXCEPT ![s] =
                   IF variant = "watch" /\ ~proxy[s].Scanner.nil
                                        /\ proxy[s].Watcher
                   THEN "recv" ELSE @]
    /\ pump' = [pump EXCEPT ![s] =
                  [g \in Pumps |-> [PumpInit EXCEPT !.pc = FirstPc]]]
    /\ start' = [start EXCEPT ![s] = "wait"]
    /\ UNCHANGED <<conf, flow, variant, scan, events, evCount, file, scanners,
                   compiles, nextGen, nextSession, mainLog, bufPool,
                   nextBuf, obs>>

\* Start without `defer p.rconn.Close()`
StartCloseLocalOnly(s) ==
    /\ start[s] = "closing"
    /\ proxy' = [proxy EXCEPT
                   ![s].log = @ \cup {Entry("info", "closed", <<>>)},
                   ![s].lconn = "closed"]
    /\ start' = [start EXCEPT ![s] = "closed"]
    /\ obs' = [obs EXCEPT ![s].lclose = @ + 1]
    /\ UNCHANGED <<conf, flow, variant, pump, scan, watch, events, evCount, file,
                   scanners, compiles, nextGen, nextSession, mainLog,
                   bufPool, nextBuf>>

\* Start after `<-p.errsig`: the Closed line, `return`, the deferred
\* rconn.Close() and lconn.Close()
StartClose(s) ==
    /\ start[s] = "closing"
    /\ proxy' = [proxy EXCEPT
                   ![s].log = @ \cup {Entry("info", "closed", <<>>)},
                   ![s].rconn = "closed",
                   ![s].lconn = "closed"]
    /\ start' = [start EXCEPT ![s] = "closed"]
    /\ obs' = [obs EXCEPT ![s].rclose = @ + 1, ![s].lclose = @ + 1]
    /\ UNCHANGED <<conf, flow, variant, pump, scan, watch, events, evCount, file,
                   scanners, compiles, nextGen, nextSession, mainLog,
                   bufPool, nextBuf>>

\* ------------------------------------------------------------------ err
\* the return of p.err to its caller; the arguments are dead
Return(pm) == [pm EXCEPT !.pc = pm.ret, !.ret = "idle", !.cause = "none",
                         !.rule = <<>>, !.on = 0]

\* the Proxy a running p.err was called on: that of the Pump itself (0),
\* or the one whose RuleMatching the shared scanner called
Receiver(pm, s) == IF pm.on = 0 THEN s ELSE pm.on

\* err without the `if p.erred` guard
ErrGuardNone(p) == FALSE

\* Proxy.err, the guard and the warning: an erred Proxy returns at once;
\* otherwise everything but EOF is logged and the send on errsig is next
ErrGuard(p) == p.erred

PipeErr(s, g) ==
    /\ pump[s][g].pc = "err"
    /\ LET t == Receiver(pump[s][g], s)
       IN  IF ErrGuard(proxy[t])
           THEN /\ pump' = [pump EXCEPT ![s][g] = Return(@)]
                /\ obs' = [obs EXCEPT ![t].ignored = @ + 1]
                /\ UNCHANGED proxy
           ELSE /\ pump' = [pump EXCEPT ![s][g].pc = "errsend"]
                /\ proxy' = [proxy EXCEPT ![t].log =
                               IF pump[s][g].cause = "EOF" THEN @
                               ELSE @ \cup {Entry("warn", pump[s][g].cause,
                                                  pump[s][g].rule)}]
                /\ obs' = [obs EXCEPT
                             ![t].passes = @ + 1,
                             ![t].first = IF obs[t].passes = 0
                                          THEN pump[s][g].cause ELSE @]
    /\ UNCHANGED <<conf, flow, variant, start, scan, watch, events, evCount, file,
                   scanners, compiles, nextGen, nextSession, mainLog,
                   bufPool, nextBuf>>

\* a send on errsig that completes without a receiver
ErrSendLost(s, g) ==
    /\ pump[s][g].pc = "errsend"
    /\ pump' = [pump EXCEPT ![s][g].pc = "errset"]
    /\ UNCHANGED <<conf, flow, variant, proxy, start, scan, watch, events, evCount,
                   file, scanners, compiles, nextGen, nextSession, mainLog,
                   bufPool, nextBuf, obs>>

\* `p.errsig <- true` meeting `<-p.errsig`: errsig is unbuffered, so the
\* send completes only together with the receive of Start
ErrSend(s, g) ==
    /\ pump[s][g].pc = "errsend"
    /\ start[Receiver(pump[s][g], s)] = "wait"
    /\ pump' = [pump EXCEPT ![s][g].pc = "errset"]
    /\ start' = [start EXCEPT ![Receiver(pump[s][g], s)] = "closing"]
    /\ obs' = [obs EXCEPT ![Receiver(pump[s][g], s)].signals = @ + 1]
    /\ UNCHANGED <<conf, flow, variant, proxy, scan, watch, events, evCount, file,
                   scanners, compiles, nextGen, nextSession, mainLog,
                   bufPool, nextBuf>>

\* `p.erred = true` and the return of err to its caller
PipeErrSet(s, g) ==
    /\ pump[s][g].pc = "errset"
    /\ proxy' = [proxy EXCEPT ![Receiver(pump[s][g], s)].erred = TRUE]
    /\ pump' = [pump EXCEPT ![s][g] = Return(@)]
    /\ UNCHANGED <<conf, flow, variant, start, scan, watch, events, evCount, file,
                   scanners, compiles, nextGen, nextSession, mainLog,
                   bufPool, nextBuf, obs>>

\* ----------------------------------------------------------------- pipe
SrcOf(p, g) == IF g = "local" THEN p.lconn ELSE p.rconn
DstOf(p, g) == IF g = "local" THEN p.rconn ELSE p.lconn

\* a call of p.err from pipe or RuleMatching: the arguments and where the
\* caller continues
CallErr(pm, cause, rule, ret) ==
    [pm EXCEPT !.pc = "err", !.cause = cause, !.rule = rule, !.ret = ret]

\* the end of one read-process-write cycle: the chunk is dead
EndCycle(pm) == [pm EXCEPT !.raw = <<>>, !.seen = <<>>, !.b = <<>>]

\* bufPool.Get(): a pooled buffer or a new one
PipeBegin(s, g) ==
    /\ variant = "cache"
    /\ pump[s][g].pc = "begin"
    /\ \E buf \in bufPool \cup {nextBuf} :
          /\ pump' = [pump EXCEPT ![s][g].buff = buf, ![s][g].pc = "top"]
          /\ bufPool' = bufPool \ {buf}
          /\ nextBuf' = IF buf = nextBuf THEN nextBuf + 1 ELSE nextBuf
    /\ UNCHANGED <<conf, flow, variant, proxy, start, scan, watch, events, evCount,
                   file, scanners, compiles, nextGen, nextSession, mainLog,
                   obs>>

\* `if p.erred { break }` at the top of the loop
PipeTop(s, g) ==
    /\ variant = "cache"
    /\ pump[s][g].pc = "top"
    /\ pump' = [pump EXCEPT ![s][g].pc =
                  IF proxy[s].erred THEN "exit" ELSE "read"]
    /\ UNCHANGED <<conf, flow, variant, proxy, start, scan, watch, events, evCount,
                   file, scanners, compiles, nextGen, nextSession, mainLog,
                   bufPool, nextBuf, obs>>

\* chunks the two Pumps of a session have read
Reads(s) == pump[s]["local"].reads + pump[s]["remote"].reads

\* a pipe whose scanner test lacks `&& islocal`
AfterReplaceAll(g) == "scantest"

\* where pipe goes after the replace loop: to the scanner test when
\* islocal, else to the write
AfterReplace(g) == IF g = "local" THEN "scantest" ELSE "write"

\* src.Read returns the chunk c; the Matcher sees the raw bytes, the
\* Replacers rewrite them in order
PipeReadOk(s, g, c) ==
    /\ pump[s][g].pc = "read"
    /\ SrcOf(proxy[s], g) = "open"
    /\ Reads(s) < MaxChunks
    /\ pump' = [pump EXCEPT
                  ![s][g].raw = c,
                  ![s][g].seen = IF proxy[s].Matcher THEN c ELSE <<>>,
                  ![s][g].b = ApplyChain(proxy[s].Replacers, c),
                  ![s][g].reads = @ + 1,
                  ![s][g].pc = AfterReplace(g)]
    /\ UNCHANGED <<conf, flow, variant, proxy, start, scan, watch, events, evCount,
                   file, scanners, compiles, nextGen, nextSession, mainLog,
                   bufPool, nextBuf, obs>>

\* src.Read returns an error: EOF or another error on an open connection,
\* an error on a connection Start has closed
PipeReadErr(s, g, e) ==
    /\ pump[s][g].pc = "read"
    /\ \/ SrcOf(proxy[s], g) = "open"
       \/ SrcOf(proxy[s], g) = "closed" /\ e = "read"
    /\ pump' = [pump EXCEPT ![s][g] = CallErr(@, e, <<>>, ExitPc)]
    /\ UNCHANGED <<conf, flow, variant, proxy, start, scan, watch, events, evCount,
                   file, scanners, compiles, nextGen, nextSession, mainLog,
                   bufPool, nextBuf, obs>>

\* a scan of the bytes as they were read
ScannedRaw(pm) == pm.raw

\* the argument of p.Scanner.ScanMem(b): the bytes after the replace loop
Scanned(pm) == pm.b

\* first rule ScanMem reports to the callback: none without a callback
FirstMatch(ref, b) ==
    IF ref.cb = 0 THEN Len(ref.rs) + 1 ELSE NextMatch(ref.rs, b, 1)

\* `if p.Scanner != nil && islocal`; in the "cache" generation the call of
\* p.Scanner.ScanMem(b) follows without a lock
PipeScanTest(s) ==
    /\ pump[s]["local"].pc = "scantest"
    /\ IF proxy[s].Scanner.nil
       THEN /\ pump' = [pump EXCEPT ![s]["local"].pc = "write"]
            /\ UNCHANGED scan
       ELSE IF variant = "watch"
       THEN /\ pump' = [pump EXCEPT ![s]["local"].pc = "lock"]
            /\ scan' = [scan EXCEPT ![s].test = proxy[s].Scanner.gen]
       ELSE /\ pump' = [pump EXCEPT ![s]["local"].pc = "scan"]
            /\ scan' = [scan EXCEPT ![s] =
                          [test |-> proxy[s].Scanner.gen,
                           ref |-> proxy[s].Scanner,
                           ri |-> FirstMatch(proxy[s].Scanner,
                                             Scanned(pump[s]["local"])),
                           ti |-> 1]]
    /\ UNCHANGED <<conf, flow, variant, proxy, start, watch, events, evCount, file,
                   scanners, compiles, nextGen, nextSession, mainLog,
                   bufPool, nextBuf, obs>>

\* p.scannerLock.Lock() and the call p.Scanner.ScanMem(b)
PipeLock(s) ==
    /\ variant = "watch"
    /\ pump[s]["local"].pc = "lock"
    /\ proxy[s].scannerLock = "free"
    /\ proxy' = [proxy EXCEPT ![s].scannerLock = "pump"]
    /\ scan' = [scan EXCEPT ![s].ref = proxy[s].Scanner,
                            ![s].ri = FirstMatch(proxy[s].Scanner,
                                                 Scanned(pump[s]["local"])),
                            ![s].ti = 1]
    /\ pump' = [pump EXCEPT ![s]["local"].pc = "scan"]
    /\ UNCHANGED <<conf, flow, variant, start, watch, events, evCount, file, scanners,
                   compiles, nextGen, nextSession, mainLog, bufPool,
                   nextBuf, obs>>

\* ScanMem returns; p.scannerLock.Unlock() in the "watch" generation
PipeScanEnd(s) ==
    /\ pump[s]["local"].pc = "scan"
    /\ scan[s].ri > Len(scan[s].ref.rs)
    /\ pump' = [pump EXCEPT ![s]["local"].pc = "write"]
    /\ proxy' = [proxy EXCEPT ![s].scannerLock =
                   IF variant = "watch" THEN "free" ELSE @]
    /\ scan' = [scan EXCEPT ![s] = ScanInit]
    /\ UNCHANGED <<conf, flow, variant, start, watch, events, evCount, file,
                   scanners, compiles, nextGen, nextSession, mainLog,
                   bufPool, nextBuf, obs>>


\* --------------------------------------------------------- RuleMatching
\* `strings.ToLower(tag) == name`
TagIs(tag, name) == ToLower(tag) = name

\* the rule the callback is running for
CurRule(s) == scan[s].ref.rs[scan[s].ri]

\* RuleMatching of the "watch" generation, one iteration of the loop over
\* rule.Tags(): log -> Info, warn -> Warn, drop -> p.err
RuleTag(s) ==
    /\ variant = "watch"
    /\ pump[s]["local"].pc = "scan"
    /\ scan[s].ri <= Len(scan[s].ref.rs)
    /\ scan[s].ti <= Len(CurRule(s).tags)
    /\ LET rule == CurRule(s)
           tag  == rule.tags[scan[s].ti]
       IN  /\ proxy' = [proxy EXCEPT ![s].log =
                 @ \cup (IF TagIs(tag, sLog)
                         THEN {Entry("info", "match", rule.id)} ELSE {})
                   \cup (IF TagIs(tag, sWarn)
                         THEN {Entry("warn", "match", rule.id)} ELSE {})]
           /\ IF TagIs(tag, sDrop)
              THEN /\ pump' = [pump EXCEPT ![s]["local"] =
                                 CallErr(@, "drop", rule.id, "scan")]
                   /\ obs' = [obs EXCEPT ![s].dropFired = TRUE]
              ELSE UNCHANGED <<pump, obs>>
    /\ scan' = [scan EXCEPT ![s].ti = @ + 1]
    /\ UNCHANGED <<conf, flow, variant, start, watch, events, evCount, file, scanners,
                   compiles, nextGen, nextSession, mainLog, bufPool,
                   nextBuf>>

\* RuleMatching of the "watch" generation after the loop: the sub value is
\* computed and dropped, `return false, nil`, the scan goes on
RuleEnd(s) ==
    /\ variant = "watch"
    /\ pump[s]["local"].pc = "scan"
    /\ scan[s].ri <= Len(scan[s].ref.rs)
    /\ scan[s].ti > Len(CurRule(s).tags)
    /\ scan' = [scan EXCEPT
                  ![s].ri = NextMatch(scan[s].ref.rs,
                                      Scanned(pump[s]["local"]),
                                      scan[s].ri + 1),
                  ![s].ti = 1]
    /\ UNCHANGED <<conf, flow, variant, proxy, start, pump, watch, events, evCount,
                   file, scanners, compiles, nextGen, nextSession, mainLog,
                   bufPool, nextBuf, obs>>

\* a RuleMatching for which no identifier has the prefix
IsLogRuleNever(id) == FALSE

\* `strings.HasPrefix(ruleID, "log_")`
IsLogRule(id) == HasPrefix(id, sLogPre)

\* The Proxies whose RuleMatching a match found by the scan of session s
\* can be delivered to.  A cache hit gives the Proxy a copy of the cached
\* yara.Scanner value, which shares the underlying scanner object and its
\* registered callback with every other copy; ScanMem runs without a lock,
\* so with two scans of one object under way the callback of either
\* Proxy can be the one that is called.
Callbacks(s) ==
    {s} \cup {t \in Sessions : /\ pump[t]["local"].pc = "scan"
                               /\ scan[t].ref.gen = scan[s].ref.gen}

\* RuleMatching of the "cache" generation: the warning naming the rule,
\* then `return true` (the scan is aborted) for a log_ rule, p.err and
\* `return false` (the scan goes on) for every other rule
RulePrefix(s) ==
    /\ variant = "cache"
    /\ pump[s]["local"].pc = "scan"
    /\ scan[s].ri <= Len(scan[s].ref.rs)
    /\ \E t \in Callbacks(s) :
       LET rule == CurRule(s)
       IN  /\ proxy' = [proxy EXCEPT ![t].log =
                          @ \cup {Entry("warn", "match", rule.id)}]
           /\ IF IsLogRule(rule.id)
              THEN /\ scan' = [scan EXCEPT
                                 ![s].ri = Len(scan[s].ref.rs) + 1]
                   /\ UNCHANGED <<pump, obs>>
              ELSE /\ scan' = [scan EXCEPT ![s].ri =
                                 NextMatch(scan[s].ref.rs,
                                           Scanned(pump[s]["local"]),
                                           scan[s].ri + 1)]
                   /\ pump' = [pump EXCEPT ![s]["local"] =
                                 [CallErr(@, "drop", rule.id, "scan")
                                    EXCEPT !.on = IF t = s THEN 0 ELSE t]]
                   /\ obs' = [obs EXCEPT ![t].dropFired = TRUE]
    /\ UNCHANGED <<conf, flow, variant, start, watch, events, evCount, file, scanners,
                   compiles, nextGen, nextSession, mainLog, bufPool,
                   nextBuf>>

\* ------------------------------------------------------- pipe, the write
\* the byte counter of the direction
Count(p, g, n) ==
    IF g = "local" THEN [p EXCEPT !.sentBytes = @ + n]
    ELSE [p EXCEPT !.receivedBytes = @ + n]

\* dst.Write(b) writes all of b: the counter of the direction grows by n
PipeWriteOk(s, g) ==
    /\ pump[s][g].pc = "write"
    /\ DstOf(proxy[s], g) = "open"
    /\ LET n == Len(pump[s][g].b)
       IN  /\ proxy' = [proxy EXCEPT ![s] = Count(@, g, n)]
           /\ obs' = [obs EXCEPT ![s].wrote[g] = @ + n]
    /\ pump' = [pump EXCEPT ![s][g] = [EndCycle(@) EXCEPT !.pc = LoopPc]]
    /\ UNCHANGED <<conf, flow, variant, start, scan, watch, events, evCount, file,
                   scanners, compiles, nextGen, nextSession, mainLog,
                   bufPool, nextBuf>>

\* dst.Write(b) returns an error after n bytes (none on a closed
\* connection): p.err, `return`, the counter is left alone
PipeWriteErr(s, g, n) ==
    /\ pump[s][g].pc = "write"
    /\ \/ DstOf(proxy[s], g) = "open" /\ n < Len(pump[s][g].b)
       \/ DstOf(proxy[s], g) = "closed" /\ n = 0
    /\ obs' = [obs EXCEPT ![s].wrote[g] = @ + n]
    /\ pump' = [pump EXCEPT ![s][g] =
                  CallErr(EndCycle(@), "write", <<>>, ExitPc)]
    /\ UNCHANGED <<conf, flow, variant, proxy, start, scan, watch, events, evCount,
                   file, scanners, compiles, nextGen, nextSession, mainLog,
                   bufPool, nextBuf>>

\* the deferred bufPool.Put(buff) when pipe returns or breaks
PipeExit(s, g) ==
    /\ variant = "cache"
    /\ pump[s][g].pc = "exit"
    /\ bufPool' = bufPool \cup {pump[s][g].buff}
    /\ pump' = [pump EXCEPT ![s][g].pc = "done", ![s][g].buff = 0]
    /\ UNCHANGED <<conf, flow, variant, proxy, start, scan, watch, events, evCount,
                   file, scanners, compiles, nextGen, nextSession, mainLog,
                   nextBuf, obs>>

\* ------------------------------------------------------------ hot reload
\* What a write leaves in the rule file.  LoadYaraConfig alone reads the
\* modification time and rule source, rebuildScanner alone reads compiled
\* rules: once the accept loop is done the time is kept and the content is
\* the compiled RuleSetB or garbage.
Writes ==
    IF nextSession <= MaxSessions THEN FileStates
    ELSE {f \in FileStates : /\ f.mtime = file.mtime
                             /\ f.kind # "source"
                             /\ f.rs # RuleSetA}

\* The rule file is written (content and modification time change) or
\* only touched (chmod event: the time changes).  The Watcher of every
\* Proxy that has one gets the event, from LoadYaraConfig on: an event
\* that comes before watchYaraFile runs waits in Events.  Modelled while a
\* Watcher or the accept loop can see it.
FsEvent(op, f) ==
    /\ evCount < (IF nextSession <= MaxSessions THEN MaxWrites
                  ELSE MaxEvents)
    /\ f \in Writes
    /\ \/ \E s \in Sessions : proxy[s].Watcher
       \/ nextSession <= MaxSessions
    /\ file' = IF op = "write" THEN f ELSE [file EXCEPT !.mtime = f.mtime]
    /\ events' = [s \in Sessions |->
                    IF proxy[s].Watcher THEN Append(events[s], op)
                    ELSE events[s]]
    /\ evCount' = evCount + 1
    /\ UNCHANGED <<conf, flow, variant, proxy, start, pump, scan, watch, scanners,
                   compiles, nextGen, nextSession, mainLog, bufPool,
                   nextBuf, obs>>

\* a filter that lets every event through
IsWriteAny(op) == TRUE

\* `evt.Has(fsnotify.Write)`
IsWrite(op) == op = "write"

\* watchYaraFile: `evt := <-p.Watcher.Events`; an event that is not a
\* write is skipped, a write enters rebuildScanner ("rulefile updated")
WatchRecv(s) ==
    /\ watch[s] = "recv"
    /\ events[s] # <<>>
    /\ events' = [events EXCEPT ![s] = Tail(@)]
    /\ IF IsWrite(Head(events[s]))
       THEN /\ watch' = [watch EXCEPT ![s] = "lock"]
            /\ proxy' = [proxy EXCEPT ![s].log =
                           @ \cup {Entry("info", "rulefile", <<>>)}]
       ELSE UNCHANGED <<watch, proxy>>
    /\ UNCHANGED <<conf, flow, variant, start, pump, scan, evCount, file, scanners,
                   compiles, nextGen, nextSession, mainLog, bufPool,
                   nextBuf, obs>>

\* rebuildScanner: p.scannerLock.Lock()
WatchLock(s) ==
    /\ watch[s] = "lock"
    /\ proxy[s].scannerLock = "free"
    /\ proxy' = [proxy EXCEPT ![s].scannerLock = "watcher"]
    /\ watch' = [watch EXCEPT ![s] = "rebuild"]
    /\ UNCHANGED <<conf, flow, variant, start, pump, scan, events, evCount, file,
                   scanners, compiles, nextGen, nextSession, mainLog,
                   bufPool, nextBuf, obs>>

\* yara.ReadRules reads a compiled rule set, nothing else
ReadRulesOk(f) == f.kind = "compiled"

\* rebuildScanner under the lock: open, ReadRules, NewScanner; on success
\* `p.Scanner = scanner` (no SetCallback), on failure a warning; then the
\* deferred Unlock
WatchRebuild(s) ==
    /\ watch[s] = "rebuild"
    /\ IF ReadRulesOk(file)
       THEN /\ proxy' = [proxy EXCEPT
                           ![s].Scanner = MkScanner(file.rs, nextGen, 0),
                           ![s].scannerLock = "free"]
            /\ nextGen' = nextGen + 1
       ELSE /\ proxy' = [proxy EXCEPT
                           ![s].log = @ \cup {Entry("warn", "rebuild", <<>>)},
                           ![s].scannerLock = "free"]
            /\ UNCHANGED nextGen
    /\ watch' = [watch EXCEPT ![s] = "recv"]
    /\ UNCHANGED <<conf, flow, variant, start, pump, scan, events, evCount, file,
                   scanners, compiles, nextSession, mainLog, bufPool,
                   nextBuf, obs>>

\* ----------------------------------------------------------------- Next
Causes == {"EOF", "read"}

Next ==
    \/ \E s \in Sessions : DialFail(s)
    \/ \E s \in Sessions : DialOk(s)
    \/ \E s \in Sessions : StartClose(s)
    \/ \E s \in Sessions, g \in Pumps : PipeBegin(s, g)
    \/ \E s \in Sessions, g \in Pumps : PipeTop(s, g)
    \/ \E s \in Sessions, g \in Pumps, c \in Chunks : PipeReadOk(s, g, c)
    \/ \E s \in Sessions, g \in Pumps, e \in Causes : PipeReadErr(s, g, e)
    \/ \E s \in Sessions : PipeScanTest(s)
    \/ \E s \in Sessions : PipeLock(s)
    \/ \E s \in Sessions : RuleTag(s)
    \/ \E s \in Sessions : RuleEnd(s)
    \/ \E s \in Sessions : RulePrefix(s)
    \/ \E s \in Sessions : PipeScanEnd(s)
    \/ \E s \in Sessions, g \in Pumps : PipeWriteOk(s, g)
    \/ \E s \in Sessions, g \in Pumps :
          \E n \in 0 .. Len(pump[s][g].b) : PipeWriteErr(s, g, n)
    \/ \E s \in Sessions, g \in Pumps : PipeErr(s, g)
    \/ \E s \in Sessions, g \in Pumps : ErrSend(s, g)
    \/ \E s \in Sessions, g \in Pumps : PipeErrSet(s, g)
    \/ \E s \in Sessions, g \in Pumps : PipeExit(s, g)
    \/ \E op \in {"write", "chmod"}, f \in FileStates : FsEvent(op, f)
    \/ \E s \in Sessions : WatchRecv(s)
    \/ \E s \in Sessions : WatchLock(s)
    \/ \E s \in Sessions : WatchRebuild(s)

Spec == Init /\ [][Next]_vars

\* The accept loop from the start of the process: connections arrive one
\* after another, AcceptTCP can fail, the rule file can change between
\* them.  The remote address is unreachable, so every Start ends at the
\* dial.
InitListen ==
    /\ InitAccept
    /\ InitIdle
    /\ conf = ConfIdle
    /\ flow = FlowIdle

NextAccept ==
    \/ \E s \in Sessions : Accept(s)
    \/ AcceptFail
    \/ \E s \in Sessions : DialFail(s)
    \/ \E op \in {"write", "chmod"}, f \in FileStates : FsEvent(op, f)

SpecAccept == InitListen /\ [][NextAccept]_vars

\* Two connections were accepted while the rule file stayed the same: the
\* first LoadYaraConfig compiled the rules, the second had a cache hit.
\* The Start of the second Proxy has dialled and its Pumps have taken their
\* buffers; the Start of the first is about to dial; the listener is still
\* accepting.
InitPair ==
    /\ variant = "cache"
    /\ file = [mtime |-> 1, kind |-> "source", rs |-> RuleSetC]
    /\ LET r1 == LoadYaraConfig(variant, file, EmptyCache, 1, 1)
           r2 == LoadYaraConfig(variant, file, r1.scanners, r1.gen, 2)
       IN  /\ proxy = [s \in Sessions |->
                 IF s = 1 THEN [New EXCEPT !.Scanner = r1.Scanner,
                                           !.Watcher = r1.Watcher]
                 ELSE IF s = 2
                 THEN [New EXCEPT !.Scanner = r2.Scanner,
                                  !.Watcher = r2.Watcher,
                                  !.rconn = "open",
                                  !.log = {Entry("info", "opened", <<>>)}]
                 ELSE Unborn]
           /\ scanners = r2.scanners
           /\ compiles = Compiled(Compiled(NoCompiles, r1, file), r2, file)
           /\ nextGen = r2.gen
    /\ mainLog = {}
    /\ start = [s \in Sessions |-> IF s = 1 THEN "dial"
                                   ELSE IF s = 2 THEN "wait" ELSE "unborn"]
    /\ nextSession = 3
    /\ pump = [s \in Sessions |-> [g \in Pumps |->
                 IF s = 2
                 THEN [PumpInit EXCEPT !.pc = "top",
                                       !.buff = IF g = "local" THEN 1 ELSE 2]
                 ELSE PumpInit]]
    /\ scan = [s \in Sessions |-> ScanInit]
    /\ watch = [s \in Sessions |-> "idle"]
    /\ events = [s \in Sessions |-> <<>>]
    /\ evCount = 0
    /\ bufPool = {}
    /\ nextBuf = 3
    /\ obs = [s \in Sessions |-> ObsInit]
    /\ conf = ConfIdle
    /\ flow = FlowIdle

\* The proxy with two sessions running side by side.  Each client sends
\* one chunk and the servers send nothing.  Session 1 meets every failure:
\* its dial, the Read from its client and its Writes can fail.  The
\* connections of session 2 fail only once its Start has closed them.  The
\* dial of a connection accepted later fails.
NextPair ==
    \/ \E s \in Sessions : Accept(s)
    \/ \E s \in Sessions : DialFail(s)
    \/ DialOk(1)
    \/ \E s \in Sessions : StartClose(s)
    \/ \E s \in Sessions, g \in Pumps : PipeBegin(s, g)
    \/ \E s \in Sessions, g \in Pumps : PipeTop(s, g)
    \/ \E s \in Sessions, c \in Chunks :
          pump[s]["local"].reads = 0 /\ PipeReadOk(s, "local", c)
    \/ \E s \in Sessions, g \in Pumps, e \in Causes :
          /\ (s = 1 /\ g = "local") \/ SrcOf(proxy[s], g) = "closed"
          /\ PipeReadErr(s, g, e)
    \/ \E s \in Sessions : PipeScanTest(s)
    \/ \E s \in Sessions : RulePrefix(s)
    \/ \E s \in Sessions : PipeScanEnd(s)
    \/ \E s \in Sessions, g \in Pumps : PipeWriteOk(s, g)
    \/ \E s \in Sessions, g \in Pumps :
          \E n \in 0 .. Len(pump[s][g].b) :
             /\ s = 1 \/ DstOf(proxy[s], g) = "closed"
             /\ PipeWriteErr(s, g, n)
    \/ \E s \in Sessions, g \in Pumps : PipeErr(s, g)
    \/ \E s \in Sessions, g \in Pumps : ErrSend(s, g)
    \/ \E s \in Sessions, g \in Pumps : PipeErrSet(s, g)
    \/ \E s \in Sessions, g \in Pumps : PipeExit(s, g)

SpecPair == InitPair /\ [][NextPair]_vars

\* a step of the goroutine running pipe for direction g of session s that
\* does not wait for the peer: everything but a Read on an open connection
PumpStep(s, g) ==
    \/ PipeBegin(s, g)
    \/ PipeTop(s, g)
    \/ SrcOf(proxy[s], g) = "closed" /\ PipeReadErr(s, g, "read")
    \/ /\ g = "local"
       /\ \/ PipeScanTest(s)
          \/ PipeLock(s)
          \/ RuleTag(s)
          \/ RuleEnd(s)
          \/ RulePrefix(s)
          \/ PipeScanEnd(s)
    \/ PipeWriteOk(s, g)
    \/ \E n \in 0 .. Len(pump[s][g].b) : PipeWriteErr(s, g, n)
    \/ PipeErr(s, g)
    \/ ErrSend(s, g)
    \/ PipeErrSet(s, g)
    \/ PipeExit(s, g)

\* a step of the goroutine running watchYaraFile for session s
WatchStep(s) == WatchRecv(s) \/ WatchLock(s) \/ WatchRebuild(s)

\* The Go scheduler runs every goroutine that can take a step: Start after
\* its receive, a Pump and the watcher are not passed over forever.
Fairness ==
    \A s \in Sessions :
        /\ WF_vars(StartClose(s))
        /\ WF_vars(WatchStep(s))
        /\ \A g \in Pumps : WF_vars(PumpStep(s, g))

SpecFair == Spec /\ Fairness

\* ----------------------------------------------------------- LoadConfig
\* yaml.Unmarshal(config, &configs): an error returns at once
LoadUnmarshal ==
    /\ conf.pc = "call"
    /\ conf' = IF conf.yaml THEN [conf EXCEPT !.pc = "loop"]
               ELSE [conf EXCEPT !.pc = "done", !.ret = "yaml"]
    /\ UNCHANGED <<pvars, flow>>

\* a loop that returns at the first item Parse rejects
LoadItemFailFast ==
    /\ conf.pc = "loop"
    /\ conf.i <= Len(conf.items)
    /\ LET r == Parse(conf.items[conf.i])
       IN  conf' = IF r.err # ""
                   THEN [conf EXCEPT !.errs = Append(@, [i |-> conf.i,
                                                         err |-> r.err]),
                                     !.pc = "done", !.ret = "multierror"]
                   ELSE [conf EXCEPT !.log = Append(@, r.rep),
                                     !.Replacers = Append(@, r.rep),
                                     !.i = @ + 1]
    /\ UNCHANGED <<pvars, flow>>

\* one iteration of `for _, r := range configs`: Parse, then either
\* multierror.Append or Log.Info and append to p.Replacers
LoadItem ==
    /\ conf.pc = "loop"
    /\ conf.i <= Len(conf.items)
    /\ LET r == Parse(conf.items[conf.i])
       IN  conf' = IF r.err # ""
                   THEN [conf EXCEPT !.errs = Append(@, [i |-> conf.i,
                                                         err |-> r.err]),
                                     !.i = @ + 1]
                   ELSE [conf EXCEPT !.log = Append(@, r.rep),
                                     !.Replacers = Append(@, r.rep),
                                     !.i = @ + 1]
    /\ UNCHANGED <<pvars, flow>>

\* `return errs`: nil when nothing was appended to it
LoadReturn ==
    /\ conf.pc = "loop"
    /\ conf.i > Len(conf.items)
    /\ conf' = [conf EXCEPT !.pc = "done",
                            !.ret = IF conf.errs = <<>> THEN "nil"
                                    ELSE "multierror"]
    /\ UNCHANGED <<pvars, flow>>

NextConfig == LoadUnmarshal \/ LoadItem \/ LoadReturn

SpecConfig == InitConfig /\ [][NextConfig]_vars

\* ------------------------------------------------- one pipe taken alone
\* one iteration of the loop of pipe: Read returns the next chunk, the
\* Replacers rewrite it, ScanMem reports the matching rules, Write writes
FlowRead ==
    /\ flow.pc = "read"
    /\ ~flow.erred
    /\ flow.todo # <<>>
    /\ LET c == Head(flow.todo)
           prev == IF flow.raw = <<>> THEN <<>>
                   ELSE flow.raw[Len(flow.raw)]
           b == ApplyChain(flow.chain, Window(prev, c))
       IN  flow' = [flow EXCEPT !.todo = Tail(@),
                                !.raw = Append(@, c),
                                !.out = Append(@, b),
                                !.hits = Append(@, Reported(flow.rs, b)),
                                !.erred = Erring(flow.rs, b)]
    /\ UNCHANGED <<pvars, conf>>

\* the loop ends: `if p.erred { break }`, or Read returns io.EOF
FlowEnd ==
    /\ flow.pc = "read"
    /\ ~flow.erred => flow.todo = <<>>
    /\ flow' = [flow EXCEPT !.pc = "done"]
    /\ UNCHANGED <<pvars, conf>>

NextChunks == FlowRead \/ FlowEnd

SpecChunks == InitChunks /\ [][NextChunks]_vars

SpecReplace == InitReplace /\ [][NextChunks]_vars


\* ======================================================== the claims
Piped(s) == start[s] \in {"wait", "closing", "closed"} /\ ~obs[s].dialFailed

\* C1: a session that reached Piping sees at most one termination signal
\* and closes each connection at most once under every interleaving, and
\* once Start has returned it has seen exactly one signal and closed the
\* local and the remote connection exactly once each.
C1_SingleTermination ==
    \A s \in Sessions :
        /\ obs[s].signals <= 1
        /\ obs[s].lclose <= 1
        /\ obs[s].rclose <= 1
        /\ Piped(s) /\ start[s] = "closing" => obs[s].signals = 1
        /\ Piped(s) /\ start[s] = "closed" =>
              /\ obs[s].signals = 1
              /\ obs[s].lclose = 1 /\ proxy[s].lconn = "closed"
              /\ obs[s].rclose = 1 /\ proxy[s].rconn = "closed"

\* C1 witness: Start has returned although both Pumps failed at the same
\* time (both passed the guard of err, one is still sending)
C1_Witness ==
    \E s \in Sessions :
        /\ start[s] = "closed"
        /\ obs[s].passes = 2
        /\ \E g \in Pumps : pump[s][g].pc = "errsend"

\* C2 (as claimed): once a drop has fired and Start has taken its signal
\* (the session is marked erred), no Pump of the session reads a further
\* chunk from either connection.
C2_NoReadAfterDrop ==
    [][\A s \in Sessions :
          (obs[s].dropFired /\ proxy[s].erred) =>
              \A g \in Pumps : pump'[s][g].reads = pump[s][g].reads]_vars

\* C3: erred never returns to false; an err that finds the session erred
\* returns to its caller without sending, logging or changing the Proxy or
\* Start; at most one signal is ever taken.
C3_ErredIdempotent ==
    /\ [](\A s \in Sessions : obs[s].signals <= 1)
    /\ [][\A s \in Sessions :
             /\ proxy[s].erred => proxy'[s].erred
             /\ \A g \in Pumps :
                   (/\ pump[s][g].pc = "err"
                    /\ proxy[s].erred
                    /\ pump'[s][g] # pump[s][g])
                   => /\ pump'[s][g].pc = pump[s][g].ret
                      /\ proxy'[s] = proxy[s]
                      /\ start'[s] = start[s]
                      /\ obs'[s].signals = obs[s].signals
                      /\ obs'[s].passes = obs[s].passes]_vars

\* C3 witness: a second drop (the next drop tag of the same rule) and an
\* I/O error were both ignored after the session was marked erred
C3_Witness ==
    \E s \in Sessions :
        /\ proxy[s].erred
        /\ obs[s].dropFired
        /\ obs[s].ignored >= 2
        /\ obs[s].passes = 1

\* C4: after a failed dial the session is Closed with the warning logged
\* and the local connection closed once; no Pump and no watcher was
\* started, the byte counters are 0 and nothing went through errsig.
C4_DialFailure ==
    \A s \in Sessions :
        obs[s].dialFailed =>
            /\ start[s] = "closed"
            /\ Entry("warn", "dial", <<>>) \in proxy[s].log
            /\ proxy[s].lconn = "closed" /\ obs[s].lclose = 1
            /\ proxy[s].rconn = "nil" /\ obs[s].rclose = 0
            /\ \A g \in Pumps : pump[s][g].pc = "idle"
            /\ watch[s] = "idle"
            /\ proxy[s].sentBytes = 0 /\ proxy[s].receivedBytes = 0
            /\ obs[s].signals = 0 /\ obs[s].passes = 0
            /\ ~proxy[s].erred

\* C4 witness: the dial failed for a Proxy that has a Scanner and a Watcher
C4_Witness ==
    \E s \in Sessions :
        /\ obs[s].dialFailed
        /\ ~proxy[s].Scanner.nil
        /\ proxy[s].Watcher


\* C5 (as claimed): after a reload that fails the rule set that was in
\* force stays in force and is the one scans use.  A rebuildScanner that
\* cannot read the rules leaves the Scanner of its Proxy, the cache, erred,
\* the connections and Start alone and logs a warning; a LoadYaraConfig
\* that cannot compile leaves the cache and every Proxy created before
\* alone, main logs a warning, and the Proxy it was called for scans with
\* the rule set of the last successful compile.
C5_PreviousRuleSetInForce ==
    [][/\ \A s \in Sessions :
             (watch[s] = "rebuild" /\ watch'[s] = "recv"
                                   /\ file.kind # "compiled")
             => /\ proxy'[s].Scanner = proxy[s].Scanner
                /\ scanners' = scanners
                /\ Entry("warn", "rebuild", <<>>) \in proxy'[s].log
                /\ proxy'[s].erred = proxy[s].erred
                /\ proxy'[s].lconn = proxy[s].lconn
                /\ proxy'[s].rconn = proxy[s].rconn
                /\ start' = start /\ pump' = pump /\ obs' = obs
       /\ (/\ nextSession' = nextSession + 1
           /\ file.kind # "source"
           /\ variant = "cache" => file.mtime # compiles.okTime)
          => /\ scanners' = scanners
             /\ \E e \in mainLog' \ mainLog : e.lvl = "warn"
             /\ \A t \in Sessions \ {nextSession} :
                   proxy'[t] = proxy[t] /\ start'[t] = start[t]
             /\ (variant = "cache" /\ compiles.okN > 0)
                => /\ ~proxy'[nextSession].Scanner.nil
                   /\ proxy'[nextSession].Scanner.rs = compiles.okRs]_vars

\* C5, the part that holds: as above, but the Proxy a failing
\* LoadYaraConfig was called for is left with the Scanner New gave it
\* (none), whatever the cache holds.
C5_ReloadFailureKeeps ==
    [][/\ \A s \in Sessions :
             (watch[s] = "rebuild" /\ watch'[s] = "recv"
                                   /\ file.kind # "compiled")
             => /\ proxy'[s].Scanner = proxy[s].Scanner
                /\ scanners' = scanners
                /\ Entry("warn", "rebuild", <<>>) \in proxy'[s].log
                /\ proxy'[s].erred = proxy[s].erred
                /\ proxy'[s].lconn = proxy[s].lconn
                /\ proxy'[s].rconn = proxy[s].rconn
                /\ start' = start /\ pump' = pump /\ obs' = obs
       /\ (/\ nextSession' = nextSession + 1
           /\ file.kind # "source"
           /\ variant = "cache" => file.mtime # compiles.okTime)
          => /\ scanners' = scanners
             /\ \E e \in mainLog' \ mainLog : e.lvl = "warn"
             /\ \A t \in Sessions \ {nextSession} :
                   proxy'[t] = proxy[t] /\ start'[t] = start[t]
             /\ proxy'[nextSession].Scanner = New.Scanner]_vars

\* C5 witness: the rule file was rewritten with rules that do not compile;
\* the Proxy accepted next has no Scanner although the cache still holds
\* the rule set the Proxy before it scans with
C5_Witness ==
    /\ variant = "cache"
    /\ nextSession = 3
    /\ ~proxy[1].Scanner.nil
    /\ proxy[2].Scanner.nil
    /\ \E e \in mainLog : e.lvl = "warn" /\ e.id = 2
    /\ \E t \in DOMAIN scanners : scanners[t].rs = proxy[1].Scanner.rs

\* C6 (as claimed): while the local Pump scans, the scanner it scans with
\* is the one it tested for presence, is still the active one, and (with
\* the lock) no rebuild is under way.
C6_ScanUsesTestedScanner ==
    \A s \in Sessions :
        pump[s]["local"].pc = "scan" =>
            /\ scan[s].ref.gen = scan[s].test
            /\ scan[s].ref = proxy[s].Scanner
            /\ variant = "watch" => /\ proxy[s].scannerLock = "pump"
                                    /\ watch[s] # "rebuild"

\* a LoadYaraConfig step of the "cache" generation
LoadStep == variant = "cache" /\ nextSession' = nextSession + 1

\* C7: a LoadYaraConfig for a rule file whose modification time is that of
\* the last successful compile does not invoke the compiler, and the Proxy
\* gets the rule set of that compile with itself as the callback.
C7_UnchangedNoRecompile ==
    [][(LoadStep /\ compiles.okN > 0 /\ file.mtime = compiles.okTime)
       => /\ compiles'.n = compiles.n
          /\ ~proxy'[nextSession].Scanner.nil
          /\ proxy'[nextSession].Scanner.rs = compiles.okRs
          /\ proxy'[nextSession].Scanner.cb = nextSession]_vars

\* C7 witness: two Proxies were loaded with one compile
C7_Witness ==
    /\ variant = "cache"
    /\ nextSession = 3
    /\ compiles.n = 1
    /\ ~proxy[1].Scanner.nil /\ ~proxy[2].Scanner.nil
    /\ proxy[2].Scanner.rs = proxy[1].Scanner.rs

\* C8 (as claimed): a lookup with a modification time that any earlier
\* successful lookup has seen does not invoke the compiler.
C8_SeenNoRecompile ==
    [][(LoadStep /\ file.mtime \in compiles.seen)
       => compiles'.n = compiles.n]_vars

\* C8 (amended): a lookup invokes the compiler exactly when the
\* modification time differs from that of the last successful compile (or
\* nothing was compiled yet), also for a time an earlier lookup has seen.
C8_RecompileUnlessLatest ==
    [][LoadStep
       => /\ compiles'.n \in {compiles.n, compiles.n + 1}
          /\ compiles'.n = compiles.n + 1
                <=> (compiles.okN = 0 \/ file.mtime # compiles.okTime)]_vars

\* C8 witness: the times 1, 2, 1 were looked up, each with valid rule
\* source, and the third lookup compiled again
C8_Witness ==
    /\ variant = "cache"
    /\ nextSession = 4
    /\ compiles.seen = {1, 2}
    /\ compiles.okN = 3
    /\ compiles.okTime = 1

\* C9: the cache never holds more than one entry, and right after a
\* successful compile it holds exactly the entry of the compiled file.
C9_SingleGeneration ==
    /\ [](Cardinality(DOMAIN scanners) <= 1)
    /\ [][(LoadStep /\ compiles'.okN = compiles.okN + 1)
          => /\ DOMAIN scanners' = {file.mtime}
             /\ scanners'[file.mtime].rs = file.rs]_vars

\* C9 witness: a second successful compile, for another modification time
\* and other rules, has replaced the first entry
C9_Witness ==
    /\ variant = "cache"
    /\ compiles.okN = 2
    /\ compiles.seen = {1, 2}
    /\ DOMAIN scanners = {file.mtime}
    /\ proxy[1].Scanner.rs # proxy[2].Scanner.rs

\* Every tag of the rule, in lower case, is log or warn.
OnlyLogWarn(rule) ==
    \A i \in DOMAIN rule.tags : ToLower(rule.tags[i]) \in {sLog, sWarn}

\* C10 (as claimed): whichever RuleMatching is built, a matching rule whose
\* tags are only log and warn, in any letter case, has a log entry naming
\* it written and err is not called for it.
C10_LogWarnNeverTerminates ==
    [][\A s \in Sessions :
          (/\ pump[s]["local"].pc = "scan"
           /\ scan[s].ri <= Len(scan[s].ref.rs)
           /\ OnlyLogWarn(scan[s].ref.rs[scan[s].ri])
           /\ scan'[s] # scan[s])
          => /\ pump'[s]["local"].pc # "err"
             /\ scan'[s].ri # scan[s].ri =>
                   \E e \in proxy'[s].log :
                      e.id = scan[s].ref.rs[scan[s].ri].id]_vars

\* C10, for the RuleMatching that reads the tags: every tag of a matching
\* rule is compared in lower case and applied: log adds the info entry
\* naming the rule, warn the warning entry, drop calls err for the rule;
\* no other tag and no end of the tag loop logs or calls err.
C10_TagsApplied ==
    [][\A s \in Sessions :
          (/\ variant = "watch"
           /\ pump[s]["local"].pc = "scan"
           /\ scan[s].ri <= Len(scan[s].ref.rs)
           /\ scan'[s] # scan[s])
          => LET rule == scan[s].ref.rs[scan[s].ri]
                 here == pump[s]["local"]
                 next == pump'[s]["local"]
             IN  IF scan[s].ti <= Len(rule.tags)
                 THEN LET t == ToLower(rule.tags[scan[s].ti])
                      IN  /\ proxy'[s].log \ proxy[s].log \subseteq
                                {Entry("info", "match", rule.id),
                                 Entry("warn", "match", rule.id)}
                          /\ t = sLog => Entry("info", "match", rule.id)
                                            \in proxy'[s].log
                          /\ t = sWarn => Entry("warn", "match", rule.id)
                                            \in proxy'[s].log
                          /\ t \notin {sLog, sWarn} =>
                                proxy'[s].log = proxy[s].log
                          /\ t = sDrop => /\ next.pc = "err"
                                          /\ next.cause = "drop"
                                          /\ next.rule = rule.id
                          /\ t # sDrop => next = here
                          /\ scan'[s].ti = scan[s].ti + 1
                 ELSE /\ next = here
                      /\ proxy'[s] = proxy[s]]_vars

\* C10 witness: the rule tagged `warn DROP` has logged its warning and
\* terminated the session, the rule tagged `LOG Warn` has logged twice
\* before without terminating it
C10_Witness ==
    \E s \in Sessions :
        /\ variant = "watch"
        /\ Entry("info", "match", sIdA) \in proxy[s].log
        /\ Entry("warn", "match", sIdA) \in proxy[s].log
        /\ Entry("warn", "match", sIdX) \in proxy[s].log
        /\ Entry("warn", "drop", sIdX) \in proxy[s].log
        /\ start[s] = "closed"


\* A rule the tables of neither scheme name: no tag that is log, warn or
\* drop in lower case, and an identifier without the log_ prefix.
PlainRule(rule) ==
    /\ \A i \in DOMAIN rule.tags :
          ToLower(rule.tags[i]) \notin {sLog, sWarn, sDrop}
    /\ ~HasPrefix(rule.id, sLogPre)

\* the step of the local Pump that ends the callback for the current rule
RuleDone(s) ==
    /\ pump[s]["local"].pc = "scan"
    /\ scan[s].ri <= Len(scan[s].ref.rs)
    /\ scan'[s].ri # scan[s].ri

\* C11 (as claimed): whichever RuleMatching is built, the callback for a
\* matching rule that has none of the tags log, warn, drop and no log_
\* prefix ends with err called for that rule.
C11_DefaultDrop ==
    [][\A s \in Sessions :
          (RuleDone(s) /\ PlainRule(scan[s].ref.rs[scan[s].ri]))
          => /\ pump'[s]["local"].pc = "err"
             /\ pump'[s]["local"].cause = "drop"
             /\ pump'[s]["local"].rule = scan[s].ref.rs[scan[s].ri].id]_vars

\* C11, for the RuleMatching that tests the log_ prefix: the callback for
\* a rule without the prefix, whatever its tags, logs the warning naming
\* the rule and calls err for it.
C11_DefaultDropPrefix ==
    [][\A s \in Sessions :
          (/\ variant = "cache"
           /\ RuleDone(s)
           /\ ~HasPrefix(scan[s].ref.rs[scan[s].ri].id, sLogPre))
          => LET rule == scan[s].ref.rs[scan[s].ri]
             IN  /\ Entry("warn", "match", rule.id) \in proxy'[s].log
                 /\ pump'[s]["local"].pc = "err"
                 /\ pump'[s]["local"].cause = "drop"
                 /\ pump'[s]["local"].rule = rule.id]_vars

\* C11 witness: in the tag generation the rule n tagged `note` matched a
\* chunk, and the chunk was written with the session still piping
C11_Witness ==
    \E s \in Sessions :
        /\ variant = "watch"
        /\ proxy[s].Scanner.rs = RuleSetC
        /\ proxy[s].Scanner.cb = s
        /\ pump[s]["local"].reads = 1
        /\ proxy[s].sentBytes = 1
        /\ obs[s].passes = 0
        /\ pump[s]["remote"].reads = 0
        /\ start[s] = "wait"

\* C12: the callback that tests the prefix, called for a rule whose
\* identifier starts with log_, logs the warning naming the rule and
\* returns: err is not called, the Pump, Start, erred, the connections and
\* the counters are as before; the scan is over and the Pump goes on to
\* write the chunk.
C12_LogPrefixNonTerminating ==
    [][\A s \in Sessions :
          /\ (/\ variant = "cache"
              /\ RuleDone(s)
              /\ HasPrefix(scan[s].ref.rs[scan[s].ri].id, sLogPre))
             => /\ proxy'[s] =
                      [proxy[s] EXCEPT !.log = @ \cup
                          {Entry("warn", "match",
                                 scan[s].ref.rs[scan[s].ri].id)}]
                /\ pump'[s] = pump[s]
                /\ start'[s] = start[s]
                /\ obs'[s] = obs[s]
                /\ scan'[s].ri > Len(scan[s].ref.rs)
          /\ (/\ variant = "cache"
              /\ pump[s]["local"].pc = "scan"
              /\ scan[s].ri > Len(scan[s].ref.rs)
              /\ pump'[s]["local"] # pump[s]["local"])
             => /\ pump'[s]["local"].pc = "write"
                /\ pump'[s]["local"].b = pump[s]["local"].b]_vars

\* C12 witness: the rule log_c, which has no tag, matched the only chunk
\* read; the chunk was written and the session is still piping
C12_Witness ==
    \E s \in Sessions :
        /\ variant = "cache"
        /\ Entry("warn", "match", sIdLogC) \in proxy[s].log
        /\ Reads(s) = 1
        /\ proxy[s].sentBytes > 0
        /\ ~proxy[s].erred
        /\ obs[s].passes = 0
        /\ start[s] = "wait"


\* C13 (as claimed): for a chunk read from the remote connection the
\* Matcher is not called and the Pump is never in the scanner code.
C13_RemoteOnlyReplacers ==
    \A s \in Sessions :
        /\ pump[s]["remote"].seen = <<>>
        /\ pump[s]["remote"].pc \notin {"scantest", "lock", "scan"}

\* C13 (amended): the Pump of the remote connection is never in the
\* scanner code; when it is about to write, the Matcher, if there is one,
\* has been called with the raw chunk and the bytes to write are the
\* Replacer chain applied to the raw chunk.
C13_RemoteMatcherNoScanner ==
    \A s \in Sessions :
        /\ pump[s]["remote"].pc \notin {"scantest", "lock", "scan"}
        /\ pump[s]["remote"].pc = "write" =>
              /\ pump[s]["remote"].seen =
                    (IF proxy[s].Matcher THEN pump[s]["remote"].raw
                     ELSE <<>>)
              /\ pump[s]["remote"].b =
                    ApplyChain(proxy[s].Replacers, pump[s]["remote"].raw)

\* C13 witness: a Proxy with a Scanner, a Matcher and a Replacer has read a
\* chunk from the remote connection; the Matcher saw it, the Replacer
\* rewrote it and the Pump is at the write
C13_Witness ==
    \E s \in Sessions :
        /\ ~proxy[s].Scanner.nil
        /\ proxy[s].Matcher
        /\ pump[s]["remote"].pc = "write"
        /\ pump[s]["remote"].seen = <<1>>
        /\ pump[s]["remote"].b = <<2, 2>>


\* C14 (as claimed): at every moment sentBytes is the number of bytes the
\* local Pump has written to the remote connection and receivedBytes the
\* number the remote Pump has written to the local one, the bytes of a
\* write that failed after n > 0 bytes included.
C14_CountersExact ==
    \A s \in Sessions :
        /\ proxy[s].sentBytes = obs[s].wrote["local"]
        /\ proxy[s].receivedBytes = obs[s].wrote["remote"]

\* C14, the part that holds: a counter never exceeds the bytes written in
\* its direction, never decreases, and changes only in a step of its own
\* Pump that completes a write, by the length of the chunk written.
C14_CountersOwnPump ==
    /\ [](\A s \in Sessions :
             /\ proxy[s].sentBytes <= obs[s].wrote["local"]
             /\ proxy[s].receivedBytes <= obs[s].wrote["remote"])
    /\ [][\A s \in Sessions :
             /\ proxy'[s].sentBytes # proxy[s].sentBytes
                => /\ pump[s]["local"].pc = "write"
                   /\ pump'[s]["remote"] = pump[s]["remote"]
                   /\ proxy'[s].sentBytes =
                         proxy[s].sentBytes + Len(pump[s]["local"].b)
                   /\ proxy'[s].receivedBytes = proxy[s].receivedBytes
             /\ proxy'[s].receivedBytes # proxy[s].receivedBytes
                => /\ pump[s]["remote"].pc = "write"
                   /\ pump'[s]["local"] = pump[s]["local"]
                   /\ proxy'[s].receivedBytes =
                         proxy[s].receivedBytes + Len(pump[s]["remote"].b)
                   /\ proxy'[s].sentBytes = proxy[s].sentBytes]_vars

\* C14 witness: a write to the remote connection returned an error after
\* one byte of a two-byte chunk; sentBytes does not have that byte
C14_Witness ==
    \E s \in Sessions :
        /\ obs[s].wrote["local"] = 1
        /\ proxy[s].sentBytes = 0
        /\ pump[s]["local"].cause = "write"


\* the warnings err writes: one per cause other than EOF
ErrWarnings(s) ==
    {e \in proxy[s].log :
        e.lvl = "warn" /\ e.msg \in {"read", "write", "drop"}}

\* C15 (as claimed): the first err call of a session to pass the guard
\* logs its warning before anything is sent on errsig unless its cause is
\* EOF, and a session whose first cause is EOF never has a warning of err
\* in its log.
C15_EofNoWarning ==
    /\ [](\A s \in Sessions : obs[s].first = "EOF" => ErrWarnings(s) = {})
    /\ [][\A s \in Sessions, g \in Pumps :
             (/\ pump[s][g].pc = "err"
              /\ obs[s].passes = 0
              /\ obs'[s].passes = 1
              /\ pump'[s][g] # pump[s][g])
             => /\ obs[s].signals = 0 /\ obs'[s].signals = 0
                /\ pump'[s][g].pc = "errsend"
                /\ pump[s][g].cause # "EOF" =>
                      Entry("warn", pump[s][g].cause, pump[s][g].rule)
                         \in proxy'[s].log
                /\ pump[s][g].cause = "EOF" =>
                      proxy'[s].log = proxy[s].log]_vars

\* C15, the part that holds: every err call that passes the guard, the
\* first one included, logs its warning before it sends unless its cause
\* is EOF, and logs nothing when its cause is EOF.
C15_WarnBeforeSignal ==
    [][\A s \in Sessions, g \in Pumps :
          (/\ pump[s][g].pc = "err"
           /\ obs'[s].passes = obs[s].passes + 1
           /\ pump'[s][g] # pump[s][g])
          => /\ obs'[s].signals = obs[s].signals
             /\ pump'[s][g].pc = "errsend"
             /\ pump[s][g].cause # "EOF" =>
                   Entry("warn", pump[s][g].cause, pump[s][g].rule)
                      \in proxy'[s].log
             /\ pump[s][g].cause = "EOF" =>
                   proxy'[s].log = proxy[s].log]_vars

\* C15 witness: the first cause was EOF, Start has closed the session, and
\* the other Pump, which tested erred before it was set, has logged a
\* warning for its own error
C15_Witness ==
    \E s \in Sessions :
        /\ obs[s].first = "EOF"
        /\ start[s] = "closed"
        /\ ErrWarnings(s) # {}


\* ---------------------------------------------------------------- chunks
\* the bytes of a sequence of chunks, one after the other
RECURSIVE Flat(_)
Flat(ss) == IF ss = <<>> THEN <<>> ELSE Head(ss) \o Flat(Tail(ss))

\* whether the find pattern of replacer r occurs in b
Occurs(r, b) ==
    IF r.kind = "regex"
    THEN \E i \in 1 .. Len(b) : MatchesAt(SubSeq(b, i, Len(b)), r.in)
    ELSE Contains(b, r.in)

\* b holds no find pattern of the chain
NoFindIn(b) == \A i \in DOMAIN flow.chain : ~Occurs(flow.chain[i], b)

\* C16: what is written for a chunk and the rules reported for it are a
\* function of that chunk alone, whatever was read before it; when no chunk
\* holds a find pattern or a rule pattern by itself, the stream is
\* forwarded as it was read and no rule is reported, also when a pattern
\* lies across a chunk boundary.
C16_ChunkAlone ==
    /\ \A k \in DOMAIN flow.out :
          /\ flow.out[k] = ApplyChain(flow.chain, flow.raw[k])
          /\ flow.hits[k] = Reported(flow.rs, flow.out[k])
          /\ \A m \in DOMAIN flow.out :
                flow.raw[m] = flow.raw[k]
                => flow.out[m] = flow.out[k] /\ flow.hits[m] = flow.hits[k]
    /\ (\A k \in DOMAIN flow.raw :
           NoFindIn(flow.raw[k]) /\ Matching(flow.rs, flow.raw[k]) = {})
       => /\ Flat(flow.out) = Flat(flow.raw)
          /\ \A k \in DOMAIN flow.hits : flow.hits[k] = {}

\* a find pattern and a rule pattern lie across the boundary of two chunks
\* and the stream went through unreplaced and unmatched
C16_Witness ==
    /\ flow.pc = "done"
    /\ Len(flow.raw) = 2
    /\ flow.rs # <<>>
    /\ \E i \in DOMAIN flow.chain : Occurs(flow.chain[i], Flat(flow.raw))
    /\ Matching(flow.rs, Flat(flow.raw)) # {}
    /\ \A k \in DOMAIN flow.raw :
          NoFindIn(flow.raw[k]) /\ Matching(flow.rs, flow.raw[k]) = {}
    /\ Flat(flow.out) = Flat(flow.raw)
    /\ \A k \in DOMAIN flow.hits : flow.hits[k] = {}

\* C20: a chunk in which no find pattern of the chain occurs leaves the
\* chain equal to what went in.
C20_NoOccurrenceUnchanged ==
    \A k \in DOMAIN flow.out :
        NoFindIn(flow.raw[k]) => flow.out[k] = flow.raw[k]

\* a chain of two replacers of different kinds met a chunk of two bytes
\* that holds neither pattern
C20_Witness ==
    \E k \in DOMAIN flow.out :
        /\ Len(flow.chain) = 2
        /\ flow.chain[1].kind # flow.chain[2].kind
        /\ Len(flow.raw[k]) = 2
        /\ NoFindIn(flow.raw[k])
        /\ flow.out[k] = flow.raw[k]

\* ------------------------------------------------------------ LoadConfig
\* item j has been through the loop and an error was appended for it
Rejected(j) == \E k \in DOMAIN conf.errs : conf.errs[k].i = j

\* item j has been through the loop and no error was appended for it
Accepted(j) == j < conf.i /\ ~Rejected(j)

\* the place in p.Replacers of the replacer of the accepted item j
Slot(j) == Len(conf.before) + Cardinality({k \in 1 .. j : Accepted(k)})

\* the call has returned from the loop over a list of items
Loaded == conf.pc = "done" /\ conf.yaml

\* C17: when LoadConfig returns, every item of the list has been validated
\* by itself, the chain is the chain before the call followed by the
\* replacers of exactly the valid items in list order, and the error is nil
\* if and only if no item was rejected.
C17_NotFailFast ==
    Loaded =>
      /\ conf.i = Len(conf.items) + 1
      /\ \A j \in DOMAIN conf.items :
            Accepted(j) <=> Parse(conf.items[j]).err = ""
      /\ Len(conf.Replacers) =
            Len(conf.before)
            + Cardinality({j \in DOMAIN conf.items : Accepted(j)})
      /\ SubSeq(conf.Replacers, 1, Len(conf.before)) = conf.before
      /\ \A j \in DOMAIN conf.items :
            Accepted(j)
            => conf.Replacers[Slot(j)] = Parse(conf.items[j]).rep
      /\ conf.ret = "nil" <=> \A j \in DOMAIN conf.items : Accepted(j)

\* a valid item after an invalid one was appended and an error returned
C17_Witness ==
    /\ Loaded
    /\ Len(conf.items) = 2
    /\ Rejected(1)
    /\ Accepted(2)
    /\ conf.before # <<>>
    /\ conf.Replacers = Append(conf.before, Parse(conf.items[2]).rep)
    /\ conf.ret = "multierror"

\* the find value of the item is missing or empty
FindMissing(it) ==
    it.find = Nil \/ it.find = Str(<<>>) \/ it.find = List(<<>>)

\* C18: an item of any kind whose find value is missing or empty is
\* rejected with an error, and a list made only of such items leaves the
\* chain as it was before the call.
C18_MissingFindRejected ==
    /\ \A j \in 1 .. conf.i - 1 :
          FindMissing(conf.items[j]) => Rejected(j)
    /\ (Loaded /\ \A j \in DOMAIN conf.items : FindMissing(conf.items[j]))
       => /\ conf.Replacers = conf.before
          /\ Len(conf.errs) = Len(conf.items)
          /\ conf.items # <<>> => conf.ret = "multierror"

\* a substring item with an empty find and a bytes item without one were
\* loaded into a Proxy that had a chain
C18_Witness ==
    /\ Loaded
    /\ Len(conf.items) = 2
    /\ conf.items[1].type \in SubstrNames
    /\ conf.items[1].find = Str(<<>>)
    /\ conf.items[2].type = "bytes"
    /\ conf.items[2].find = Nil
    /\ Len(conf.errs) = 2
    /\ conf.before # <<>>
    /\ conf.Replacers = conf.before

\* the element is an int in [0,255]
IsByte(e) == e.t = "int" /\ e.n \in 0 .. 255

\* the configured elements of a list, in order
Elems(l) == [k \in 1 .. Len(l) |-> l[k].n]

\* C19: a bytes item that was accepted has a non-empty find list, only
\* ints in [0,255] in its find and replace lists, and its replacer holds
\* exactly the configured elements in order; so an item with an element of
\* 256, a negative element or an element that is no int is rejected.
C19_BytesItem ==
    \A j \in 1 .. conf.i - 1 :
        (conf.items[j].type = "bytes" /\ Accepted(j))
        => LET it == conf.items[j]
               rep == conf.Replacers[Slot(j)]
           IN  /\ it.find.t = "list"
               /\ it.replace.t = "list"
               /\ it.find.l # <<>>
               /\ \A k \in DOMAIN it.find.l : IsByte(it.find.l[k])
               /\ \A k \in DOMAIN it.replace.l : IsByte(it.replace.l[k])
               /\ rep.kind = "bytes"
               /\ rep.in = Elems(it.find.l)
               /\ rep.out = Elems(it.replace.l)

\* an item of four find elements gave four find bytes and an item with an
\* element of 256 was rejected
C19_Witness ==
    /\ Loaded
    /\ Len(conf.items) = 2
    /\ conf.items[1].type = "bytes"
    /\ Accepted(1)
    /\ Len(conf.items[1].find.l) = 4
    /\ conf.Replacers[Slot(1)].in = <<1, 2, 0, 255>>
    /\ conf.items[2].type = "bytes"
    /\ \E k \in DOMAIN conf.items[2].find.l : conf.items[2].find.l[k].n = 256
    /\ Rejected(2)


\* -------------------------------------------------------------- Replace
\* the places where old occurs in src
Occ(src, old) ==
    {i \in 1 .. Len(src) - Len(old) + 1 :
        SubSeq(src, i, i + Len(old) - 1) = old}

\* P holds non-overlapping occurrences of old in src, taken from the left:
\* an occurrence outside P starts inside an occurrence of P
LeftToRight(P, src, old) ==
    /\ P \subseteq Occ(src, old)
    /\ \A p \in P, q \in P : p < q => p + Len(old) <= q
    /\ \A q \in Occ(src, old) \ P :
          \E p \in P : p < q /\ q < p + Len(old)

\* src from place i on with new for the occurrences at the places P
RECURSIVE Splice(_, _, _, _, _)
Splice(src, i, P, old, new) ==
    IF i > Len(src) THEN <<>>
    ELSE IF i \in P THEN new \o Splice(src, i + Len(old), P, old, new)
    ELSE <<src[i]>> \o Splice(src, i + 1, P, old, new)

\* the replacer of the other literal kind with the same find and replace
Twin(r) == [r EXCEPT !.kind = IF r.kind = "bytes" THEN "string" ELSE "bytes"]

\* C21: a Substring or ByteSequence replacer returns its input with the
\* replacement in place of every non-overlapping occurrence of the find
\* sequence, taken from the left, and every other byte as it was and where
\* it was; the replacer of the other kind with the same find and replace
\* returns the same bytes.
C21_ReplaceEvery ==
    \A k \in DOMAIN flow.out :
        (Len(flow.chain) = 1 /\ flow.chain[1].kind \in LiteralKinds)
        => LET r == flow.chain[1]
               src == flow.raw[k]
           IN  /\ \E P \in SUBSET Occ(src, r.in) :
                     /\ LeftToRight(P, src, r.in)
                     /\ flow.out[k] = Splice(src, 1, P, r.in, r.out)
               /\ flow.out[k] = Replace(Twin(r), src)

\* the Substring replacer 1337 -> beef turned "I am 1337" into "I am beef"
C21_Witness ==
    /\ flow.pc = "done"
    /\ flow.chain = <<[kind |-> "string", in |-> s1337, out |-> sBeef]>>
    /\ flow.raw = <<sIAm \o s1337>>
    /\ flow.out = <<sIAm \o sBeef>>


\* ------------------------------------------------------------------ sub
\* b with the bytes of getSubstitution in place of the string of every
\* rule from i on that matches and carries a usable `sub` item
RECURSIVE Substituted(_, _, _)
Substituted(rs, b, i) ==
    IF i > Len(rs) THEN b
    ELSE IF Contains(b, rs[i].pattern) /\ getSubstitution(rs[i].sub).ok
         THEN Substituted(rs, ReplaceAll(b, rs[i].pattern,
                                         getSubstitution(rs[i].sub).bytes),
                          i + 1)
         ELSE Substituted(rs, b, i + 1)

\* ScanMem returns to pipe in session s
ScanReturns(s) ==
    pump[s]["local"].pc = "scan" /\ pump'[s]["local"].pc = "write"

\* C23: when the scan of a chunk returns, the chunk to write has the sub
\* bytes in place of the bytes matched by a rule with a `sub` item.
C23_SubReplaces ==
    [][\A s \in Sessions :
          (variant = "watch" /\ ScanReturns(s) /\ scan[s].ref.cb # 0)
          => pump'[s]["local"].b =
               Substituted(scan[s].ref.rs, pump[s]["local"].b, 1)]_vars

\* C23, what the code does: the scan leaves the chunk to write as it was.
C23_SubDropped ==
    [][\A s \in Sessions :
          ScanReturns(s) => pump'[s]["local"].b = pump[s]["local"].b]_vars

\* the rule with sub = "{ 41 41 41 41 }" matched the chunk <<1>> and one
\* byte, not four, was written
C23_Witness ==
    \E s \in Sessions :
        /\ variant = "watch"
        /\ getSubstitution(RuleLog.sub) =
             [bytes |-> <<65, 65, 65, 65>>, ok |-> TRUE]
        /\ Entry("warn", "match", RuleLog.id) \in proxy[s].log
        /\ pump[s]["local"].reads = 1
        /\ pump[s]["remote"].reads = 0
        /\ obs[s].wrote["local"] = 1


\* ------------------------------------------------------------ the guard
\* the Pumps of session s that are inside err at `p.errsig <- true`
Sending(s) == {g \in Pumps : pump[s][g].pc = "errsend"}

\* C24: in every session at most one call of err passes the `erred` guard
\* and goes on to send on errsig.
C24_OneErrPasses == \A s \in Sessions : obs[s].passes <= 1

\* C24, what the code does: every call that passed the guard either had
\* its signal taken by Start, which takes one, or is still at the send.
C24_PassesSendOrWait ==
    \A s \in Sessions :
        /\ obs[s].signals <= 1
        /\ obs[s].passes = obs[s].signals + Cardinality(Sending(s))

\* both Pumps passed the guard; Start took one signal and has returned,
\* the other Pump is at the send
C24_Witness ==
    \E s \in Sessions :
        /\ obs[s].passes = 2
        /\ obs[s].signals = 1
        /\ start[s] = "closed"
        /\ Cardinality(Sending(s)) = 1


\* ---------------------------------------------------------------- order
\* the positions of pipe between the replace loop and the end of the write
InCycle(pm) ==
    \/ pm.pc \in {"scantest", "lock", "scan", "write"}
    \/ pm.pc \in {"err", "errsend", "errset"} /\ pm.ret = "scan"

\* what the Replacers 1 .. k of chain make of raw: the first works on raw,
\* every later one on the output of the one before it
RECURSIVE Through(_, _, _)
Through(chain, raw, k) ==
    IF k = 0 THEN raw
    ELSE Replace(chain[k], Through(chain, raw, k - 1))

\* reps is the configured order of the command line cl: the Replacers of
\* the items of the file, one for one in the order of the list, and after
\* them the RegexReplacer of -replace ("find~new") when the option is given
Configured(reps, cl) ==
    LET n == Len(cl.config)
        m == IF cl.replace = <<>> THEN 0 ELSE 1
    IN  /\ Len(reps) = n + m
        /\ \A i \in 1 .. n :
              /\ reps[i].in = IF cl.config[i].find.t = "list"
                              THEN [j \in DOMAIN cl.config[i].find.l |->
                                      cl.config[i].find.l[j].n]
                              ELSE cl.config[i].find.v
              /\ reps[i].kind = IF cl.config[i].type = "bytes" THEN "bytes"
                                ELSE "string"
        /\ m = 1 => /\ reps[n + 1].kind = "regex"
                    /\ reps[n + 1].in \o sTilde \o reps[n + 1].out
                         = cl.replace

\* C25: for a chunk read from the local endpoint the Matcher has seen the
\* bytes as read, the Replacers of the Proxy are those of the command line
\* in configured order, the chunk in hand is what they make of these bytes
\* one after the other, every rule the Scanner dispatches matches the
\* replaced bytes, and the write puts exactly the replaced bytes on the
\* remote connection; a Pump reads its next chunk only after the write of
\* the one before, so the chunks of a direction are written in the order
\* read.
C25_CycleOrder ==
    /\ [](\A s \in Sessions :
            LET pm   == pump[s]["local"]
                reps == proxy[s].Replacers
                b    == Through(reps, pm.raw, Len(reps))
            IN  (variant = "cache" /\ InCycle(pm))
                => /\ proxy[s].Matcher => pm.seen = pm.raw
                   /\ \E cl \in CommandLines :
                         /\ cl.match = proxy[s].Matcher
                         /\ Configured(reps, cl)
                   /\ pm.b = b
                   /\ (pm.pc = "scan" /\ scan[s].ri <= Len(scan[s].ref.rs))
                      => Contains(b, CurRule(s).pattern))
    /\ [][\A s \in Sessions, g \in Pumps :
             /\ pump'[s][g].reads # pump[s][g].reads
                => /\ pump[s][g].pc = "read"
                   /\ pump[s][g].raw = <<>>
                   /\ pump[s][g].b = <<>>
             /\ obs'[s].wrote[g] # obs[s].wrote[g]
                => /\ pump[s][g].pc = "write"
                   /\ obs'[s].wrote[g] - obs[s].wrote[g] <= Len(pump[s][g].b)
                   /\ pump'[s][g].pc # "err"
                      => obs'[s].wrote[g] - obs[s].wrote[g]
                           = Len(Through(proxy[s].Replacers, pump[s][g].raw,
                                         Len(proxy[s].Replacers)))]_vars

\* A Proxy has the Replacer of the config file, 1 -> 2 2, followed by the
\* one of -replace, 2 -> 1, and a Scanner whose two rules match byte 2.
\* The chunk <<2>> went past the Matcher and left the replace loop as <<1>>
\* (the other way round it is <<2, 2>>): no rule was dispatched and one
\* byte was written. Then the chunk <<1>> was read, left the loop as
\* <<1, 1>>, was scanned and is about to be written.
C25_Witness ==
    \E s \in Sessions :
        LET reps == proxy[s].Replacers
        IN  /\ variant = "cache"
            /\ proxy[s].Matcher
            /\ Len(reps) = 2
            /\ reps[1].kind = "bytes" /\ reps[2].kind = "regex"
            /\ ApplyChainBackward(reps, <<2>>) = <<2, 2>>
            /\ proxy[s].Scanner.rs = RuleSetB
            /\ evCount = 0
            /\ \A r \in {RuleLogB, RuleDrop} :
                  Entry("warn", "match", r.id) \notin proxy[s].log
            /\ pump[s]["local"].reads = 2
            /\ pump[s]["remote"].reads = 0
            /\ pump[s]["local"].pc = "write"
            /\ pump[s]["local"].seen = <<1>>
            /\ pump[s]["local"].b = <<1, 1>>
            /\ obs[s].wrote["local"] = 1


\* ------------------------------------------------------------- liveness
\* a Pump of session s or its rule callback has called err
ErrCalled(s) == \E g \in Pumps : pump[s][g].pc = "err"

\* session s is Closed with both connections closed
ClosedBoth(s) ==
    /\ start[s] = "closed"
    /\ proxy[s].lconn = "closed"
    /\ proxy[s].rconn = "closed"

\* C26: after a read error, a write error or a rule drop in a Pump the
\* session reaches Closed with both connections closed.
C26_ErrorLeadsToClosed ==
    \A s \in Sessions : ErrCalled(s) ~> ClosedBoth(s)

\* a session whose local Pump hit EOF is Closed with both connections
\* closed after one signal
C26_Witness ==
    \E s \in Sessions :
        /\ ClosedBoth(s)
        /\ obs[s].first = "EOF"
        /\ obs[s].signals = 1
        /\ obs[s].lclose = 1
        /\ obs[s].rclose = 1


\* ----------------------------------------------------------- hot reload
\* the watcher of session s takes an event from Watcher.Events
Received(s) == events[s] # <<>> /\ events'[s] = Tail(events[s])

\* C27: a write event taken by the watcher of a session enters one
\* rebuildScanner, any other event leaves the watcher and the Scanner as
\* they were; the Scanner of a running session changes only at the end of
\* a rebuild that read the rules, to a scanner for the rules in the file;
\* and a Pump inside a scan scans with the Scanner the Proxy holds.
C27_ReloadOnWrite ==
    /\ [][\A s \in Sessions :
             /\ Received(s)
                => IF Head(events[s]) = "write"
                   THEN watch[s] = "recv" /\ watch'[s] = "lock"
                   ELSE /\ watch'[s] = watch[s]
                        /\ proxy'[s].Scanner = proxy[s].Scanner
             /\ (watch[s] = "rebuild" /\ watch'[s] = "recv"
                                      /\ ReadRulesOk(file))
                => /\ ~proxy'[s].Scanner.nil
                   /\ proxy'[s].Scanner.rs = file.rs
                   /\ proxy'[s].Scanner.gen = nextGen
             /\ (start[s] # "unborn"
                 /\ proxy'[s].Scanner # proxy[s].Scanner)
                => watch[s] = "rebuild" /\ ReadRulesOk(file)]_vars
    /\ [](\A s \in Sessions :
            (variant = "watch" /\ InCycle(pump[s]["local"])
             /\ pump[s]["local"].pc \notin {"scantest", "lock", "write"})
            => /\ scan[s].ref = proxy[s].Scanner
               /\ proxy[s].scannerLock = "pump")

\* after a write event the Scanner of the session was rebuilt and its
\* local Pump is inside a scan with the rebuilt Scanner
C27_Witness ==
    \E s \in Sessions :
        /\ variant = "watch"
        /\ Entry("info", "rulefile", <<>>) \in proxy[s].log
        /\ watch[s] = "recv"
        /\ proxy[s].Scanner.gen > 1
        /\ proxy[s].Scanner.rs = file.rs
        /\ pump[s]["local"].pc = "scan"
        /\ scan[s].ref = proxy[s].Scanner


\* ---------------------------------------------------------------- bufPool
\* the buffers the Pumps hold
Held == {x \in Sessions \X Pumps : pump[x[1]][x[2]].buff # 0}

\* C28: once a session is Closed the buffers of its Pumps are back in the
\* pool.
C28_BuffersReturned ==
    \A s \in Sessions :
        ClosedBoth(s) ~> (\A g \in Pumps : pump[s][g].buff = 0)

\* C28, what the code does: a buffer is held by one Pump and is not in the
\* pool while it is held, from the Get before the loop until the Pump has
\* returned from pipe; a Pump that has returned holds none.
C28_BufferOwned ==
    /\ \A x \in Held, y \in Held :
          x # y => pump[x[1]][x[2]].buff # pump[y[1]][y[2]].buff
    /\ \A x \in Held : pump[x[1]][x[2]].buff \notin bufPool
    /\ \A s \in Sessions, g \in Pumps :
          /\ pump[s][g].pc \in {"idle", "begin", "done"}
             => pump[s][g].buff = 0
          /\ (variant = "cache"
              /\ pump[s][g].pc \notin {"idle", "begin", "done"})
             => pump[s][g].buff # 0

\* the session is Closed, one Pump has returned its buffer and the other
\* is at the send on errsig with its buffer
C28_Witness ==
    \E s \in Sessions, g \in Pumps, h \in Pumps :
        /\ ClosedBoth(s)
        /\ pump[s][g].pc = "done"
        /\ pump[s][h].pc = "errsend"
        /\ pump[s][h].buff # 0
        /\ pump[s][h].buff \notin bufPool

\* ------------------------------------------------------------- the exit
\* both Pumps of session s have returned from pipe and none holds the
\* scanner lock
Exited(s) ==
    /\ \A g \in Pumps : pump[s][g].pc = "done"
    /\ proxy[s].scannerLock # "pump"

\* C29: after a session is Closed both of its Pumps return from pipe, and
\* the scanner lock is not left with a Pump.
C29_PumpsExit ==
    \A s \in Sessions : ClosedBoth(s) ~> Exited(s)

\* C29, what the code does: the Pumps return unless a second call of err
\* has passed the guard.
C29_ExitUnlessSecondPass ==
    \A s \in Sessions :
        ClosedBoth(s) ~> (Exited(s) \/ obs[s].passes >= 2)

\* a drop raced with the EOF of the other leg: the session is Closed and
\* the local Pump is at the send inside the scan, holding the scanner lock
C29_Witness ==
    \E s \in Sessions :
        /\ ClosedBoth(s)
        /\ obs[s].dropFired
        /\ obs[s].first = "EOF"
        /\ pump[s]["remote"].pc = "done"
        /\ pump[s]["local"].pc = "errsend"
        /\ pump[s]["local"].ret = "scan"
        /\ proxy[s].scannerLock = "pump"


\* ------------------------------------------------- actions after reload
\* a rule of rs that matches b and carries the tag drop
DropMatches(rs, b) ==
    \E i \in Matching(rs, b) :
        \E t \in DOMAIN rs[i].tags : TagIs(rs[i].tags[t], sDrop)

\* ScanMem returns to pipe and the chunk goes on to the write
ScanDone(s) ==
    /\ variant = "watch"
    /\ pump[s]["local"].pc = "scan"
    /\ pump'[s]["local"].pc = "write"

\* rebuildScanner has read the rules and installs the new Scanner
Reloaded(s) ==
    /\ watch[s] = "rebuild"
    /\ watch'[s] = "recv"
    /\ ReadRulesOk(file)

\* C30: rule actions fire before and after a reload: a scan of a chunk
\* that matches a drop rule of the rule set in force has called the
\* RuleMatching of the session, which fired the drop.
C30_DropFiresAfterReload ==
    [][\A s \in Sessions :
          (ScanDone(s) /\ DropMatches(scan[s].ref.rs,
                                      Scanned(pump[s]["local"])))
          => obs[s].dropFired]_vars

\* C30, what the code does: rebuildScanner installs a Scanner of the new
\* rules with no callback, and a scan with it calls RuleMatching for no
\* rule: no drop, no log entry, and the chunk is written.
C30_ReloadedScannerSilent ==
    [][\A s \in Sessions :
          /\ Reloaded(s) => /\ proxy'[s].Scanner.rs = file.rs
                            /\ proxy'[s].Scanner.cb = 0
          /\ (pump[s]["local"].pc = "scan" /\ scan[s].ref.cb = 0)
             => /\ scan[s].ri > Len(scan[s].ref.rs)
                /\ ~ENABLED RuleTag(s)
                /\ (pump'[s]["local"] # pump[s]["local"]) => ScanDone(s)]_vars

\* after a reload the client sent a chunk that matches a drop rule of the
\* new rules; the scan is over, nothing fired and the session goes on
C30_Witness ==
    \E s \in Sessions :
        /\ variant = "watch"
        /\ pump[s]["local"].pc = "scan"
        /\ scan[s].ref.cb = 0
        /\ scan[s].ref = proxy[s].Scanner
        /\ DropMatches(scan[s].ref.rs, Scanned(pump[s]["local"]))
        /\ scan[s].ri > Len(scan[s].ref.rs)
        /\ ~obs[s].dropFired
        /\ ~proxy[s].erred
        /\ start[s] = "wait"


\* ------------------------------------------------ sessions side by side
\* a step of a Pump of session s, the scan and its callbacks included
PumpMoves(s) == pump'[s] # pump[s] \/ scan'[s] # scan[s]

\* the step leaves the Proxy of session t and its Start alone
Untouched(t) ==
    /\ proxy'[t] = proxy[t]
    /\ start'[t] = start[t]
    /\ obs'[t] = obs[t]

\* the scan of b with the rules rs calls p.err: the first matching rule is
\* not a log_ rule
Drops(rs, b) ==
    /\ NextMatch(rs, b, 1) <= Len(rs)
    /\ ~IsLogRule(rs[NextMatch(rs, b, 1)].id)

\* C22: a failure or drop in one session stays in it: no step of the Pumps
\* of a session logs to, sets erred of or signals another session.
C22_SessionsIndependent ==
    [][\A s \in Sessions, t \in Sessions :
          (s # t /\ PumpMoves(s)) => Untouched(t)]_vars

\* C22, what the code does: a dial failure, a read error and a write error
\* stay in their session, and the accept loop goes on whatever happens to
\* the sessions.  A rule match crosses to another session only through a
\* scanner object the two share, while both are scanning.
C22_OnlySharedScannerCrosses ==
    [][/\ \A s \in Sessions, t \in Sessions :
             (s # t /\ PumpMoves(s) /\ ~Untouched(t))
             => /\ ~proxy[s].Scanner.nil
                /\ proxy[s].Scanner.gen = proxy[t].Scanner.gen
                /\ \/ pump[s]["local"].pc = "scan"
                      /\ pump[t]["local"].pc = "scan"
                   \/ pump[s]["local"].cause = "drop"
                      /\ pump[s]["local"].on = t
       /\ \A s \in Sessions, t \in Sessions :
             (s # t /\ start'[s] # start[s] /\ ~PumpMoves(s))
             => Untouched(t)
       /\ \A s \in Sessions, g \in Pumps :
             pump[s][g].cause \in {"EOF", "read", "write"}
             => pump[s][g].on = 0
       /\ nextSession <= MaxSessions => ENABLED Accept(nextSession)]_vars

\* the chunk of session s matched a drop rule and session t, whose chunk
\* matched none, was signalled and is Closed; session s goes on
C22_Witness ==
    \E s \in Sessions, t \in Sessions :
        /\ s # t
        /\ Drops(proxy[s].Scanner.rs, pump[s]["local"].b)
        /\ pump[s]["local"].pc = "write"
        /\ start[s] = "wait"
        /\ ~proxy[s].erred
        /\ obs[s].passes = 0
        /\ pump[t]["local"].pc = "write"
        /\ ~Drops(proxy[t].Scanner.rs, pump[t]["local"].b)
        /\ obs[t].first = "drop"
        /\ obs[t].passes = 1
        /\ proxy[t].erred
        /\ start[t] = "closed"
        /\ proxy[t].lconn = "closed"
        /\ nextSession > MaxSessions


\* ------------------------------------------------- writes after a drop
\* the step writes bytes to the remote connection or counts them as sent
SendsOn(s) ==
    \/ obs'[s].wrote["local"] # obs[s].wrote["local"]
    \/ proxy'[s].sentBytes # proxy[s].sentBytes

\* C31: once a drop has fired for a chunk read from the local endpoint, no
\* byte is written to the remote connection and sentBytes stays as it is.
C31_NoWriteAfterDrop ==
    [][\A s \in Sessions : obs[s].dropFired => ~SendsOn(s)]_vars

\* C31, what the code does: p.err returns into the scan and pipe goes on to
\* dst.Write(b), so the chunk is written unless Start has closed the
\* remote connection first; nothing is written once it is closed.  With
\* the erred test at the head of the loop the chunk written is the one
\* that matched and no later one.
C31_WritesUntilClosed ==
    [][\A s \in Sessions :
          (obs[s].dropFired /\ SendsOn(s))
          => /\ proxy[s].rconn = "open"
             /\ pump[s]["local"].pc = "write"
             /\ variant = "cache"
                => /\ proxy[s].erred
                   /\ Drops(proxy[s].Scanner.rs, pump[s]["local"].b)]_vars

\* the only chunk the client sent matched a drop rule, Start has taken the
\* signal, and the chunk has been written to the server and counted
C31_Witness ==
    \E s \in Sessions :
        /\ obs[s].dropFired
        /\ obs[s].first = "drop"
        /\ pump[s]["local"].reads = 1
        /\ pump[s]["remote"].reads = 0
        /\ obs[s].wrote["local"] > 0
        /\ proxy[s].sentBytes = obs[s].wrote["local"]
        /\ proxy[s].erred
        /\ obs[s].signals = 1

=============================================================================
